---------------------------- MODULE Spec2Model ----------------------------
(* A model of the blog subsystem of EVall-backend: the derivation of reading  *)
(* time and excerpt from an EditorJS document (blogs/models.py,               *)
(* blogs/serializers.py) and the post store with its create, update, publish, *)
(* unpublish and retrieve handlers (blogs/views.py).                          *)
(*                                                                            *)
(* Text is a sequence of one-character strings.  A JSON value is a record     *)
(* with a tag ("absent" for a missing key, "null", "num", "str", "list",      *)
(* "dict") so that every shape the API accepts can be written down.           *)
EXTENDS Integers, Sequences, FiniteSets, TLC

VARIABLES
    content,           \* SpecDoc: the document under derivation (BlogPost.content)
    meta_description,  \* SpecDoc: BlogPost.meta_description of that post
    reading_time,      \* SpecDoc: outcome of calculate_reading_time, or NotRun
    excerpt,           \* SpecDoc: outcome of get_excerpt, or NotRun
    posts,             \* the blog_blogpost table: pk -> row
    now,               \* the clock read by timezone.now()
    resp,              \* the response of the last finished request
    reqs,              \* SpecConc: requests in flight, per worker
    started,           \* SpecConc: the number of requests started so far
    leads,             \* the lead-form tables: resource -> rows
    lead_resp,         \* the last lead-form request and its response
    seo_tags,          \* the seo_seotag table: pk -> row
    seo_tag,           \* an SEOTag instance in memory
    seo_resp,          \* the last operation on SEO tags and how it ended
    advanced,          \* the seo_advancedseo table: a set of rows
    adv_reqs,          \* AdvancedSEO operations in flight, per worker
    adv_resp           \* the last AdvancedSEO operation that ended

docVars == <<content, meta_description, reading_time, excerpt>>
storeVars == <<posts, now, resp, reqs, started>>
leadVars == <<leads, lead_resp>>
seoVars == <<seo_tags, seo_tag, seo_resp>>
advVars == <<advanced, adv_reqs, adv_resp>>
siteVars ==
    <<leads, lead_resp, seo_tags, seo_tag, seo_resp, advanced, adv_reqs, adv_resp>>
vars ==
    <<content, meta_description, reading_time, excerpt, posts, now, resp, reqs, started,
      leads, lead_resp, seo_tags, seo_tag, seo_resp, advanced, adv_reqs, adv_resp>>

-----------------------------------------------------------------------------
(* Bounds of the model *)

MaxBlocks == 2
MaxPosts == 2
MaxTime == 3
MaxViews == 2
MaxRequests == 3
NWorkers == 2
Workers == 1..NWorkers

-----------------------------------------------------------------------------
(* Text *)

Rep(u, n) == [i \in 1..(n * Len(u)) |-> u[((i - 1) % Len(u)) + 1]]

Min(S) == CHOOSE m \in S : \A k \in S : m <= k

Max(a, b) == IF a >= b THEN a ELSE b

\* The positions >= i where the pattern <[^>]+> matches: a "<", at least one
\* character that is not ">", and then a ">".
TagStarts(s, i) ==
    {c \in i..(Len(s) - 2) : /\ s[c] = "<"
                             /\ s[c + 1] # ">"
                             /\ \E k \in (c + 2)..Len(s) : s[k] = ">"}

\* [^>]+ stops at the first ">" after the opening "<".
TagEnd(s, c) == Min({k \in (c + 2)..Len(s) : s[k] = ">"})

RECURSIVE StripFrom(_, _)
StripFrom(s, i) ==
    IF TagStarts(s, i) = {} THEN SubSeq(s, i, Len(s))
    ELSE LET c == Min(TagStarts(s, i))
         IN SubSeq(s, i, c - 1) \o StripFrom(s, TagEnd(s, c) + 1)

\* re.sub(r'<[^>]+>', '', text): leftmost non-overlapping matches removed.
StripTags(s) == StripFrom(s, 1)

IsSpace(c) == c = " "

\* len(text.split()): the number of maximal runs of non-whitespace.
WordCount(s) ==
    Cardinality({i \in 1..Len(s) : ~IsSpace(s[i]) /\ (i = 1 \/ IsSpace(s[i - 1]))})

WORDS_PER_MINUTE == 200
EXCERPT_LENGTH == 200
Ellipsis == <<".", ".", ".">>

\* Python 3 round() of the quotient n / d: to the nearest integer, a tie to
\* the even one.
PyRound(n, d) ==
    LET q == n \div d
        r == n % d
    IN IF 2 * r < d THEN q
       ELSE IF 2 * r > d THEN q + 1
       ELSE IF q % 2 = 0 THEN q ELSE q + 1

-----------------------------------------------------------------------------
(* JSON values of a document *)

Str(s) == [tag |-> "str", s |-> s]
Num == [tag |-> "num", s |-> <<"5">>]
NoText == [tag |-> "absent", s |-> <<>>]

NoItems == [tag |-> "absent", xs |-> <<>>]
NullItems == [tag |-> "null", xs |-> <<>>]
Items(xs) == [tag |-> "list", xs |-> xs]

NoData == [tag |-> "absent", text |-> NoText, items |-> NoItems]
NullData == [tag |-> "null", text |-> NoText, items |-> NoItems]
Data(t, its) == [tag |-> "dict", text |-> t, items |-> its]

Block(k, d) == [tag |-> "dict", type |-> k, data |-> d]
StrBlock == [tag |-> "str", type |-> "absent", data |-> NoData]

NullContent == [tag |-> "null", keys |-> "none", blocks |-> NullItems]
ListContent == [tag |-> "list", keys |-> "none", blocks |-> NullItems]
EmptyDict == [tag |-> "dict", keys |-> "none", blocks |-> NullItems]
OtherDict == [tag |-> "dict", keys |-> "other", blocks |-> NullItems]
NullBlocks == [tag |-> "dict", keys |-> "blocks", blocks |-> NullItems]
Doc(bs) == [tag |-> "dict", keys |-> "blocks", blocks |-> Items(bs)]

TxtPlain == <<"a", " ", "b">>
TxtMarkup == <<"<", "b", ">", "a", "<", "/", "b", ">", " ", " ", "c", "<", "b">>
TxtOdd == <<"<", ">", "a", ">">>
Txt200 == <<"<", "i", ">">> \o Rep(<<"a">>, EXCERPT_LENGTH) \o <<"<", "/", "i", ">">>
Txt201 == Rep(<<"a">>, EXCERPT_LENGTH + 1)
W250 == Rep(<<"a", " ">>, 250)
W300 == Rep(<<"a", " ">>, 300)

Kinds ==
    {"paragraph", "Paragraph", "header", "Header", "quote", "Quote",
     "list", "List", "image", "delimiter", "hologram", "absent"}

LongData == Data(Str(W300), Items(<<Str(W250), Str(W250)>>))

ParagraphData ==
    {NoData, NullData} \cup
    {Data(t, NoItems) :
        t \in {NoText, Num, Str(TxtMarkup), Str(TxtOdd), Str(Txt200), Str(Txt201)}}

ListData ==
    {NullData, Data(NoText, NullItems), Data(NoText, Items(<<Str(TxtPlain), Num>>))}

Blocks ==
    {StrBlock}
    \cup {Block(k, LongData) : k \in Kinds}
    \cup {Block("paragraph", d) : d \in ParagraphData}
    \cup {Block("list", d) : d \in ListData}
    \cup {Block("image", d) : d \in {NoData, NullData}}

Shapes == {NullContent, ListContent, EmptyDict, OtherDict, NullBlocks, Doc(<<>>)}

Metas == {<<>>, <<"m">>}

-----------------------------------------------------------------------------
(* Outcomes of a Python call: a value, or an exception that propagates *)

Ok(v) == [tag |-> "ok", v |-> v]
RaiseInt == [tag |-> "raise", v |-> 0]
RaiseStr == [tag |-> "raise", v |-> <<>>]
NotRunInt == [tag |-> "none", v |-> 0]
NotRunStr == [tag |-> "none", v |-> <<>>]

\* `not self.content`: None and {} are falsy; ListContent is a non-empty list.
Truthy(c) == c.tag = "list" \/ (c.tag = "dict" /\ c.keys # "none")

\* isinstance(self.content, dict) and 'blocks' in self.content
HasBlocks(c) == c.tag = "dict" /\ c.keys = "blocks"

\* block.get('data', {}).get('text', ''), then re.sub and split.  A data of
\* null has no .get; re.sub refuses a text that is not a string.
TextWords(block) ==
    IF block.data.tag = "absent" THEN Ok(0)
    ELSE IF block.data.tag = "null" THEN RaiseInt
    ELSE IF block.data.text.tag = "absent" THEN Ok(0)
    ELSE IF block.data.text.tag # "str" THEN RaiseInt
    ELSE Ok(WordCount(StripTags(block.data.text.s)))

RECURSIVE SumItems(_, _)
SumItems(xs, i) ==
    IF i > Len(xs) THEN 0
    ELSE WordCount(StripTags(xs[i].s)) + SumItems(xs, i + 1)

\* block.get('data', {}).get('items', []), then str(item) for each item.
ListWords(block) ==
    IF block.data.tag = "absent" THEN Ok(0)
    ELSE IF block.data.tag = "null" THEN RaiseInt
    ELSE IF block.data.items.tag = "absent" THEN Ok(0)
    ELSE IF block.data.items.tag = "null" THEN RaiseInt
    ELSE Ok(SumItems(block.data.items.xs, 1))

TextKinds == {"paragraph", "header", "quote", "Header"}
ListKinds == {"list", "List"}

\* A mutant of BlockWords: the text of a block of any other kind is counted too.
BlockWordsOfAnyKind(block) ==
    IF block.tag # "dict" THEN RaiseInt
    ELSE IF block.type \in ListKinds THEN ListWords(block)
    ELSE TextWords(block)

\* One pass of the loop over content['blocks'].
BlockWords(block) ==
    IF block.tag # "dict" THEN RaiseInt
    ELSE IF block.type \in TextKinds THEN TextWords(block)
    ELSE IF block.type \in ListKinds THEN ListWords(block)
    ELSE Ok(0)

RECURSIVE SumBlocks(_, _)
SumBlocks(bs, i) ==
    IF i > Len(bs) THEN Ok(0)
    ELSE LET w == BlockWords(bs[i])
         IN IF w.tag = "raise" THEN RaiseInt
            ELSE LET rest == SumBlocks(bs, i + 1)
                 IN IF rest.tag = "raise" THEN RaiseInt ELSE Ok(w.v + rest.v)

\* BlogPost.calculate_reading_time
calculate_reading_time(c) ==
    IF ~Truthy(c) THEN Ok(1)
    ELSE IF ~HasBlocks(c) THEN Ok(Max(1, PyRound(0, WORDS_PER_MINUTE)))
    ELSE IF c.blocks.tag = "null" THEN RaiseInt
    ELSE LET w == SumBlocks(c.blocks.xs, 1)
         IN IF w.tag = "raise" THEN RaiseInt
            ELSE Ok(Max(1, PyRound(w.v, WORDS_PER_MINUTE)))

\* text[:200] + '...' if len(text) > 200 else text
Truncate(text) ==
    IF Len(text) > EXCERPT_LENGTH
    THEN SubSeq(text, 1, EXCERPT_LENGTH) \o Ellipsis
    ELSE text

ParagraphText(block) ==
    IF block.data.tag = "absent" THEN Ok(<<>>)
    ELSE IF block.data.tag = "null" THEN RaiseStr
    ELSE IF block.data.text.tag = "absent" THEN Ok(<<>>)
    ELSE IF block.data.text.tag # "str" THEN RaiseStr
    ELSE Ok(Truncate(StripTags(block.data.text.s)))

RECURSIVE FirstParagraph(_, _)
FirstParagraph(bs, i) ==
    IF i > Len(bs) THEN Ok(<<>>)
    ELSE IF bs[i].tag # "dict" THEN RaiseStr
    ELSE IF bs[i].type = "paragraph" THEN ParagraphText(bs[i])
    ELSE FirstParagraph(bs, i + 1)

\* BlogPostListSerializer.get_excerpt
get_excerpt(m, c) ==
    IF m # <<>> THEN Ok(m)
    ELSE IF ~(Truthy(c) /\ c.tag = "dict") THEN Ok(<<>>)
    ELSE IF ~HasBlocks(c) THEN Ok(<<>>)
    ELSE IF c.blocks.tag = "null" THEN RaiseStr
    ELSE FirstParagraph(c.blocks.xs, 1)

-----------------------------------------------------------------------------
(* Slugs *)

Lower(c) ==
    IF c = "A" THEN "a" ELSE IF c = "B" THEN "b" ELSE IF c = "L" THEN "l" ELSE c

\* \w, \s and "-" are what slugify keeps.
IsWordChar(c) == c \in {"a", "b", "e", "l", "s", "t", "0", "1", "2", "3", "4", "5", "6", "7", "8", "9", "_"}
IsSep(c) == c \in {" ", "-"}

\* re.sub(r'[^\w\s-]', '', value.lower())
RECURSIVE KeepSlugChars(_)
KeepSlugChars(s) ==
    IF s = <<>> THEN <<>>
    ELSE LET c == Lower(Head(s))
         IN (IF IsWordChar(c) \/ IsSep(c) THEN <<c>> ELSE <<>>) \o KeepSlugChars(Tail(s))

\* re.sub(r'[-\s]+', '-', value)
RECURSIVE Hyphenate(_)
Hyphenate(s) ==
    IF s = <<>> THEN <<>>
    ELSE IF IsSep(Head(s))
         THEN IF Len(s) > 1 /\ IsSep(s[2]) THEN Hyphenate(Tail(s))
              ELSE <<"-">> \o Hyphenate(Tail(s))
    ELSE <<Head(s)>> \o Hyphenate(Tail(s))

\* .strip('-_')
RECURSIVE StripEnds(_)
StripEnds(s) ==
    IF s = <<>> THEN <<>>
    ELSE IF Head(s) \in {"-", "_"} THEN StripEnds(Tail(s))
    ELSE IF s[Len(s)] \in {"-", "_"} THEN StripEnds(SubSeq(s, 1, Len(s) - 1))
    ELSE s

\* django.utils.text.slugify
slugify(title) == StripEnds(Hyphenate(KeepSlugChars(title)))

Digit(d) == <<"0", "1", "2", "3", "4", "5", "6", "7", "8", "9">>[d + 1]

RECURSIVE Decimal(_)
Decimal(n) == IF n < 10 THEN <<Digit(n)>> ELSE Decimal(n \div 10) \o <<Digit(n % 10)>>

\* f"{original_slug}-{counter}"
Suffixed(original_slug, counter) == original_slug \o <<"-">> \o Decimal(counter)

-----------------------------------------------------------------------------
(* The post table *)

NoRow ==
    [title |-> <<>>, slug |-> <<>>, status |-> "draft", published_at |-> 0,
     views_count |-> 0, content |-> NullContent, reading_time |-> 0,
     category |-> "news", is_featured |-> FALSE]

\* BlogPost.objects.filter(slug=slug).exclude(pk=pk).exists(); pk = 0 is the
\* pk of an instance that is not saved yet.
SlugTaken(db, slug, pk) == \E i \in DOMAIN db : i # pk /\ db[i].slug = slug

RECURSIVE ScanSlug(_, _, _, _, _)
ScanSlug(db, pk, original_slug, slug, counter) ==
    IF SlugTaken(db, slug, pk)
    THEN ScanSlug(db, pk, original_slug, Suffixed(original_slug, counter), counter + 1)
    ELSE slug

\* A mutant of GenerateSlug: the counter starts at 2.
GenerateSlugCountingFromTwo(db, pk, inst) ==
    IF inst.slug = <<>>
    THEN ScanSlug(db, pk, slugify(inst.title), slugify(inst.title), 2)
    ELSE inst.slug

\* The first step of save(): a slug from the title when there is none.
GenerateSlug(db, pk, inst) ==
    IF inst.slug = <<>>
    THEN ScanSlug(db, pk, slugify(inst.title), slugify(inst.title), 1)
    ELSE inst.slug

-----------------------------------------------------------------------------
(* The content column.  content is a JSONField: a write stores json.dumps of  *)
(* the value, a read yields json.loads of what is stored.  The stored text is *)
(* a sequence of tokens: punctuation, null, and the strings and numbers.      *)

Tok(k, s) == [k |-> k, s |-> s]
Punct(k) == Tok(k, <<>>)
Key(name) == <<Tok("str", <<name>>), Punct(":")>>

RECURSIVE Join(_)
Join(parts) ==
    IF parts = <<>> THEN <<>>
    ELSE IF Len(parts) = 1 THEN parts[1]
    ELSE parts[1] \o <<Punct(",")>> \o Join(Tail(parts))

Object(members) == <<Punct("{")>> \o Join(members) \o <<Punct("}")>>
Array(elems) == <<Punct("[")>> \o Join(elems) \o <<Punct("]")>>

dumps_text(t) == <<Tok(t.tag, t.s)>>

dumps_items(its) ==
    IF its.tag = "null" THEN <<Punct("null")>>
    ELSE Array([i \in DOMAIN its.xs |-> dumps_text(its.xs[i])])

dumps_data(d) ==
    IF d.tag = "null" THEN <<Punct("null")>>
    ELSE Object((IF d.text.tag = "absent" THEN <<>>
                 ELSE <<Key("text") \o dumps_text(d.text)>>)
                \o (IF d.items.tag = "absent" THEN <<>>
                    ELSE <<Key("items") \o dumps_items(d.items)>>))

dumps_block(b) ==
    IF b.tag = "str" THEN <<Tok("str", <<>>)>>
    ELSE Object((IF b.type = "absent" THEN <<>>
                 ELSE <<Key("type") \o <<Tok("str", <<b.type>>)>>>>)
                \o (IF b.data.tag = "absent" THEN <<>>
                    ELSE <<Key("data") \o dumps_data(b.data)>>))

dumps_blocks(bs) ==
    IF bs.tag = "null" THEN <<Punct("null")>>
    ELSE Array([i \in DOMAIN bs.xs |-> dumps_block(bs.xs[i])])

\* A mutant of dumps: only the blocks of a kind calculate_reading_time knows
\* are written.
dumps_known_kinds(c) ==
    IF c.tag = "null" THEN <<Punct("null")>>
    ELSE IF c.tag = "list" THEN Array(<<dumps_text(Num)>>)
    ELSE IF c.keys = "none" THEN Object(<<>>)
    ELSE IF c.keys = "other" THEN Object(<<Key("time") \o dumps_text(Num)>>)
    ELSE Object(<<Key("blocks")
                  \o dumps_blocks(IF c.blocks.tag = "null" THEN c.blocks
                                  ELSE Items(SelectSeq(c.blocks.xs,
                                         LAMBDA b : b.type \in TextKinds \cup ListKinds)))>>)

\* json.dumps of a document.
dumps(c) ==
    IF c.tag = "null" THEN <<Punct("null")>>
    ELSE IF c.tag = "list" THEN Array(<<dumps_text(Num)>>)
    ELSE IF c.keys = "none" THEN Object(<<>>)
    ELSE IF c.keys = "other" THEN Object(<<Key("time") \o dumps_text(Num)>>)
    ELSE Object(<<Key("blocks") \o dumps_blocks(c.blocks)>>)

\* A parsed value and the tokens after it.
Parsed(v, rest) == [v |-> v, rest |-> rest]
SkipComma(ts) == IF ts # <<>> /\ Head(ts).k = "," THEN Tail(ts) ELSE ts

RECURSIVE loads_elems(_, _), loads_block(_), loads_data(_), loads_items(_, _),
          data_members(_, _), block_members(_, _)

loads_text(ts) == Parsed([tag |-> Head(ts).k, s |-> Head(ts).s], Tail(ts))

\* An element e that was read, then the elements after it.
Prepend(v, more) == Parsed(<<v>> \o more.v, more.rest)
elems_after(e, of) == Prepend(e.v, loads_elems(SkipComma(e.rest), of))

\* The elements of an array up to its "]".
loads_elems(ts, of) ==
    IF Head(ts).k = "]" THEN Parsed(<<>>, Tail(ts))
    ELSE elems_after(IF of = "block" THEN loads_block(ts) ELSE loads_text(ts), of)

AsItems(l) == Parsed(Items(l.v), l.rest)

loads_items(ts, of) ==
    IF Head(ts).k = "null" THEN Parsed(NullItems, Tail(ts))
    ELSE AsItems(loads_elems(Tail(ts), of))

data_with_text(t, d) == data_members(SkipComma(t.rest), [d EXCEPT !.text = t.v])
data_with_items(i, d) == data_members(SkipComma(i.rest), [d EXCEPT !.items = i.v])

\* The members of a data object up to its "}": a key, ":", and the value.
data_members(ts, d) ==
    IF Head(ts).k = "}" THEN Parsed(d, Tail(ts))
    ELSE IF Head(ts).s[1] = "text"
    THEN data_with_text(loads_text(Tail(Tail(ts))), d)
    ELSE data_with_items(loads_items(Tail(Tail(ts)), "text"), d)

loads_data(ts) ==
    IF Head(ts).k = "null" THEN Parsed(NullData, Tail(ts))
    ELSE data_members(Tail(ts), Data(NoText, NoItems))

block_with_data(d, b) == block_members(SkipComma(d.rest), [b EXCEPT !.data = d.v])

\* The members of a block object up to its "}".
block_members(ts, b) ==
    IF Head(ts).k = "}" THEN Parsed(b, Tail(ts))
    ELSE IF Head(ts).s[1] = "type"
    THEN block_members(SkipComma(SubSeq(ts, 4, Len(ts))), [b EXCEPT !.type = ts[3].s[1]])
    ELSE block_with_data(loads_data(Tail(Tail(ts))), b)

loads_block(ts) ==
    IF Head(ts).k = "str" THEN Parsed(StrBlock, Tail(ts))
    ELSE block_members(Tail(ts), Block("absent", NoData))

\* json.loads of a stored document.
loads(ts) ==
    IF Head(ts).k = "null" THEN NullContent
    ELSE IF Head(ts).k = "[" THEN ListContent
    ELSE IF ts[2].k = "}" THEN EmptyDict
    ELSE IF ts[2].s = <<"blocks">>
    THEN [tag |-> "dict", keys |-> "blocks",
          blocks |-> loads_items(SubSeq(ts, 4, Len(ts)), "block").v]
    ELSE OtherDict

\* Documents with blocks of kinds calculate_reading_time knows and of kinds
\* it does not, in both orders, with a null data and a list among them.
Hologram == Block("hologram", LongData)
Para == Block("paragraph", Data(Str(TxtMarkup), NoItems))
RoundDocs ==
    {Doc(<<Hologram, Para>>), Doc(<<Para, Hologram>>),
     Doc(<<Block("image", NullData), Block("list", Data(NoText, Items(<<Str(TxtPlain), Num>>)))>>),
     OtherDict}

\* The documents the requests carry.
LongDoc == Doc(<<Block("paragraph", Data(Str(W300), NoItems))>>)
StoreDocs == {NullContent, LongDoc, NullBlocks}

\* self.calculate_reading_time() on each of these documents, evaluated once.
ReadingTimeOf == [d \in StoreDocs \cup RoundDocs |-> calculate_reading_time(d)]

\* What a read of the content column yields after a write of each of these
\* documents, evaluated once.
from_db == [d \in StoreDocs \cup RoundDocs |-> loads(dumps(d))]

\* A mutant of StampsPublication: every save of a published post stamps it.
StampsEveryPublished(inst) == inst.status = "published"

\* A mutant of StampsPublication: save() stamps nothing.
StampsNothing(inst) == FALSE

\* The second step of save(): the first publication is stamped.
StampsPublication(inst) == inst.status = "published" /\ inst.published_at = 0

\* A mutant of save: the reading time is not recomputed.
save_keeping_reading_time(db, pk, inst, clock) ==
    LET rt == ReadingTimeOf[inst.content]
        stamped == StampsPublication(inst)
    IN [tag |-> rt.tag,
        row |-> [inst EXCEPT !.slug = GenerateSlug(db, pk, inst),
                             !.published_at = IF stamped THEN clock ELSE @],
        clock |-> IF stamped THEN clock + 1 ELSE clock]

\* BlogPost.save up to super().save(): the row to write, the clock after it,
\* or the exception calculate_reading_time raised.
save(db, pk, inst, clock) ==
    LET rt == ReadingTimeOf[inst.content]
        stamped == StampsPublication(inst)
    IN [tag |-> rt.tag,
        row |-> [inst EXCEPT !.slug = GenerateSlug(db, pk, inst),
                             !.published_at = IF stamped THEN clock ELSE @,
                             !.reading_time = IF rt.tag = "ok" THEN rt.v ELSE @],
        clock |-> IF stamped THEN clock + 1 ELSE clock]

-----------------------------------------------------------------------------
(* Request handlers of BlogPostViewSet.  A handler reads the table and builds *)
(* the write it will issue (Pending); Commit is that write reaching the       *)
(* table.                                                                     *)

\* op and slug are the request (for create, slug is the slug it supplies).
Pending(op, slug, write, pk, row, code, msg, clock) ==
    [op |-> op, slug |-> slug, write |-> write, pk |-> pk, row |-> row,
     code |-> code, msg |-> msg, clock |-> clock, sent |-> <<>>]

Reject(op, slug, pk, code, msg, clock) ==
    Pending(op, slug, "none", pk, NoRow, code, msg, clock)

HTTP_400_BAD_REQUEST == 400

\* A mutant of get_queryset: drafts are never filtered out.
get_queryset_all(db, include_drafts) == DOMAIN db

\* BlogPostViewSet.get_queryset: the rows a request can see.
get_queryset(db, include_drafts) ==
    {i \in DOMAIN db : include_drafts \/ db[i].status = "published"}

\* GenericAPIView.get_object with lookup_field = 'slug': the pk, or 0 for 404.
get_object(db, slug, include_drafts) ==
    LET found == {i \in get_queryset(db, include_drafts) : db[i].slug = slug}
    IN IF found = {} THEN 0 ELSE CHOOSE i \in found : TRUE

\* BlogPostWriteSerializer.validate_slug
validate_slug(db, pk, value) == ~SlugTaken(db, value, pk)

\* POST /api/blogs/
create(db, clock, title, slug, status, doc) ==
    LET p == IF slug # <<>> /\ ~validate_slug(db, 0, slug)
             THEN Reject("create", slug, 0, HTTP_400_BAD_REQUEST, "slug exists", clock)
             ELSE LET inst == [NoRow EXCEPT !.title = title, !.slug = slug,
                                            !.status = status, !.content = doc]
                      s == save(db, 0, inst, clock)
                  IN IF s.tag = "raise"
                     THEN Reject("create", slug, 0, 500, "exception", clock)
                     ELSE Pending("create", slug, "insert", 0, s.row, 201, "", s.clock)
    IN [p EXCEPT !.sent = slug]

SlugPatch(v) == [field |-> "slug", slug |-> v, status |-> "draft", content |-> NullContent]
StatusPatch(v) == [field |-> "status", slug |-> <<>>, status |-> v, content |-> NullContent]
ContentPatch(v) == [field |-> "content", slug |-> <<>>, status |-> "draft", content |-> v]

ApplyPatch(row, patch) ==
    IF patch.field = "slug" THEN [row EXCEPT !.slug = patch.slug]
    ELSE IF patch.field = "status" THEN [row EXCEPT !.status = patch.status]
    ELSE [row EXCEPT !.content = patch.content]

\* PATCH /api/blogs/{slug}/
partial_update(db, clock, slug, include_drafts, patch) ==
    LET pk == get_object(db, slug, include_drafts)
        p == IF pk = 0
             THEN Reject("update", slug, 0, 404, "not found", clock)
             ELSE IF patch.field = "slug" /\ ~validate_slug(db, pk, patch.slug)
             THEN Reject("update", slug, pk, HTTP_400_BAD_REQUEST, "slug exists", clock)
             ELSE LET s == save(db, pk, ApplyPatch(db[pk], patch), clock)
                  IN IF s.tag = "raise"
                     THEN Reject("update", slug, pk, 500, "exception", clock)
                     ELSE Pending("update", slug, "update", pk, s.row, 200, "", s.clock)
    IN [p EXCEPT !.sent = patch.slug]

\* A mutant of publish: the status of the post is not looked at.
publish_unchecked(db, clock, slug, include_drafts) ==
    LET pk == get_object(db, slug, include_drafts)
    IN IF pk = 0
       THEN Reject("publish", slug, 0, 404, "not found", clock)
       ELSE LET stamp == db[pk].published_at = 0
                inst == [db[pk] EXCEPT !.status = "published",
                                       !.published_at = IF stamp THEN clock ELSE @]
                s == save(db, pk, inst, IF stamp THEN clock + 1 ELSE clock)
            IN IF s.tag = "raise"
               THEN Reject("publish", slug, pk, 500, "exception", clock)
               ELSE Pending("publish", slug, "update", pk, s.row, 200,
                            "Blog post published successfully", s.clock)

\* POST /api/blogs/{slug}/publish/
publish(db, clock, slug, include_drafts) ==
    LET pk == get_object(db, slug, include_drafts)
    IN IF pk = 0
       THEN Reject("publish", slug, 0, 404, "not found", clock)
       ELSE IF db[pk].status = "published"
       THEN Reject("publish", slug, pk, HTTP_400_BAD_REQUEST,
                   "Blog post is already published", clock)
       ELSE LET stamp == db[pk].published_at = 0
                inst == [db[pk] EXCEPT !.status = "published",
                                       !.published_at = IF stamp THEN clock ELSE @]
                s == save(db, pk, inst, IF stamp THEN clock + 1 ELSE clock)
            IN IF s.tag = "raise"
               THEN Reject("publish", slug, pk, 500, "exception", clock)
               ELSE Pending("publish", slug, "update", pk, s.row, 200,
                            "Blog post published successfully", s.clock)

\* POST /api/blogs/{slug}/unpublish/
unpublish(db, clock, slug, include_drafts) ==
    LET pk == get_object(db, slug, include_drafts)
    IN IF pk = 0
       THEN Reject("unpublish", slug, 0, 404, "not found", clock)
       ELSE IF db[pk].status = "draft"
       THEN Reject("unpublish", slug, pk, HTTP_400_BAD_REQUEST,
                   "Blog post is already a draft", clock)
       ELSE LET s == save(db, pk, [db[pk] EXCEPT !.status = "draft"], clock)
            IN IF s.tag = "raise"
               THEN Reject("unpublish", slug, pk, 500, "exception", clock)
               ELSE Pending("unpublish", slug, "update", pk, s.row, 200,
                            "Blog post unpublished successfully", s.clock)

\* A mutant of increment_views: the counter is saved as it was read.
increment_views_unchanged(db, pk, inst, clock) ==
    save(db, pk, inst, clock)

\* BlogPost.increment_views: views_count += 1, then save(update_fields=
\* ['views_count']), which runs save() on the instance and writes one column.
increment_views(db, pk, inst, clock) ==
    save(db, pk, [inst EXCEPT !.views_count = @ + 1], clock)

\* GET /api/blogs/{slug}/
retrieve(db, clock, slug, include_drafts) ==
    LET pk == get_object(db, slug, include_drafts)
    IN IF pk = 0
       THEN Reject("retrieve", slug, 0, 404, "not found", clock)
       ELSE LET s == increment_views(db, pk, db[pk], clock)
            IN IF s.tag = "raise"
               THEN Reject("retrieve", slug, pk, 500, "exception", clock)
               ELSE Pending("retrieve", slug, "views", pk, s.row, 200, "", s.clock)

\* The content of a response that carries no post.
NoBody == [tag |-> "absent", keys |-> "none", blocks |-> NullItems]

\* pks are the posts a listing returns, sent is the slug the payload of a
\* partial update asked for.
Response(op, slug, code, pk, msg) ==
    [op |-> op, slug |-> slug, code |-> code, pk |-> pk, msg |-> msg, pks |-> {},
     sent |-> <<>>, content |-> NoBody]

\* POST /api/blogs/ with category and is_featured in the payload; save() reads
\* neither field.
create_tagged(db, clock, title, slug, status, doc, category, is_featured) ==
    LET p == create(db, clock, title, slug, status, doc)
    IN IF p.write = "insert"
       THEN [p EXCEPT !.row.category = category, !.row.is_featured = is_featured]
       ELSE p

\* The response of a listing; msg keeps the include_drafts query parameter.
Listing(op, include_drafts, pks) ==
    [Response(op, <<>>, 200, 0, IF include_drafts THEN "include_drafts=true" ELSE "")
        EXCEPT !.pks = pks]

\* GET /api/blogs/?status=...: filter_queryset over get_queryset; a status of
\* "" is no filter.
list(db, include_drafts, status) ==
    Listing("list", include_drafts,
            {i \in get_queryset(db, include_drafts) : status = "" \/ db[i].status = status})

\* GET /api/blogs/featured/
featured(db, include_drafts) ==
    Listing("featured", include_drafts,
            {i \in get_queryset(db, include_drafts) : db[i].is_featured})

\* GET /api/blogs/by_category/?category=...; a category of "" is none given.
by_category(db, include_drafts, category) ==
    IF category = ""
    THEN Response("by_category", <<>>, HTTP_400_BAD_REQUEST, 0,
                  "Category parameter is required")
    ELSE Listing("by_category", include_drafts,
                 {i \in get_queryset(db, include_drafts) : db[i].category = category})

DEFAULT_LIMIT == 5

\* int(limit), 5 when it is absent, not a number or not positive; limit is
\* [tag, v] with tag "absent", "bad" or "int".
ParseLimit(limit) ==
    IF limit.tag = "int" /\ limit.v > 0 THEN limit.v ELSE DEFAULT_LIMIT

\* GET /api/blogs/latest/?limit=...: the first rows of order_by('-published_at').
\* Where the rows without published_at sort depends on the database, so each
\* placement of them is a possible page.
latest(db, include_drafts, limit) ==
    LET qs == get_queryset(db, include_drafts)
        n == IF ParseLimit(limit) < Cardinality(qs) THEN ParseLimit(limit)
             ELSE Cardinality(qs)
    IN {Listing("latest", include_drafts, page) :
          page \in {S \in SUBSET qs :
                      /\ Cardinality(S) = n
                      /\ \A i \in S, j \in qs \ S :
                            (db[i].published_at # 0 /\ db[j].published_at # 0)
                                => db[i].published_at > db[j].published_at}}

\* A mutant of UniqueViolation: the slug column has no unique index.
NoUniqueIndex(db, pk, row) == FALSE

\* The unique index on slug: an INSERT or UPDATE that would give two rows the
\* same slug fails with IntegrityError.
UniqueViolation(db, pk, row) == \E i \in DOMAIN db : i # pk /\ db[i].slug = row.slug

\* A mutant of WriteViews: the whole instance is written.
WriteWholeRow(db, p) == [db EXCEPT ![p.pk] = p.row]

\* super().save(update_fields=['views_count']): one column of one row.
WriteViews(db, p) == [db EXCEPT ![p.pk].views_count = p.row.views_count]

\* super().save(): the write of a Pending request against the table as it is
\* now, and the response the request ends with.
Commit(db, p) ==
    LET c == IF p.write = "none"
             THEN [db |-> db, resp |-> Response(p.op, p.slug, p.code, p.pk, p.msg)]
             ELSE IF p.write = "views"
             THEN [db |-> WriteViews(db, p),
                   resp |-> Response(p.op, p.slug, p.code, p.pk, p.msg)]
             ELSE IF UniqueViolation(db, p.pk, p.row)
             THEN [db |-> db,
                   resp |-> Response(p.op, p.slug, 500, p.pk, "IntegrityError")]
             ELSE IF p.write = "insert"
             THEN [db |-> Append(db, [p.row EXCEPT !.content = from_db[@]]),
                   resp |-> Response(p.op, p.slug, p.code, Len(db) + 1, p.msg)]
             ELSE [db |-> [db EXCEPT ![p.pk] = [p.row EXCEPT !.content = from_db[@]]],
                   resp |-> Response(p.op, p.slug, p.code, p.pk, p.msg)]
        \* serializer.data of the instance the handler holds
        body == IF p.write = "none" \/ c.resp.code = 500 THEN NoBody ELSE p.row.content
    IN [db |-> c.db, resp |-> [c.resp EXCEPT !.sent = p.sent, !.content = body]]

-----------------------------------------------------------------------------
(* The URLs of the viewset: router.register(r'blogs', BlogPostViewSet) *)

FeaturedPath == <<"f", "e", "a", "t", "u", "r", "e", "d">>
LatestPath == <<"l", "a", "t", "e", "s", "t">>
ByCategoryPath == <<"b", "y", "_", "c", "a", "t", "e", "g", "o", "r", "y">>

\* The view a GET of /api/blogs/<segment>/ is dispatched to.  The router lists
\* the routes of the detail=False actions before the detail route
\* (?P<slug>[^/.]+), Django takes the first pattern that matches, and the
\* detail pattern needs at least one character.
route(segment) ==
    IF segment = <<>> THEN "none"
    ELSE IF segment = FeaturedPath THEN "featured"
    ELSE IF segment = ByCategoryPath THEN "by_category"
    ELSE IF segment = LatestPath THEN "latest"
    ELSE "retrieve"

-----------------------------------------------------------------------------
(* The bulk actions of BlogPostAdmin and a save that changes no field *)

\* PATCH /api/blogs/{slug}/ with an empty payload: serializer.save() calls
\* save() on the instance as it was read.
resave(db, clock, slug, include_drafts) ==
    LET pk == get_object(db, slug, include_drafts)
    IN IF pk = 0
       THEN Reject("resave", slug, 0, 404, "not found", clock)
       ELSE LET s == save(db, pk, db[pk], clock)
            IN IF s.tag = "raise"
               THEN Reject("resave", slug, pk, 500, "exception", clock)
               ELSE Pending("resave", slug, "update", pk, s.row, 200, "", s.clock)

\* The body of the loop of publish_posts for one post of the queryset.
publish_post(db, clock, pk) ==
    LET stamp == db[pk].published_at = 0
        inst == [db[pk] EXCEPT !.status = "published",
                               !.published_at = IF stamp THEN clock ELSE @]
        s == save(db, pk, inst, IF stamp THEN clock + 1 ELSE clock)
    IN IF s.tag = "raise"
       THEN Reject("publish_posts", db[pk].slug, pk, 500, "exception", clock)
       ELSE Pending("publish_posts", db[pk].slug, "update", pk, s.row, 200, "", s.clock)

\* BlogPostAdmin.publish_posts over the selected drafts, in the order the
\* queryset yields them; an exception ends the action where it is raised.
RECURSIVE publish_posts(_, _, _)
publish_posts(db, clock, order) ==
    IF order = <<>> THEN [db |-> db, clock |-> clock, code |-> 200]
    ELSE LET p == publish_post(db, clock, Head(order))
         IN IF p.write = "none" THEN [db |-> db, clock |-> clock, code |-> p.code]
            ELSE publish_posts(Commit(db, p).db, p.clock, Tail(order))

\* BlogPostAdmin.unpublish_posts:
\* queryset.filter(status='published').update(status='draft')
unpublish_posts(db, selected) ==
    [i \in DOMAIN db |->
        IF i \in selected /\ db[i].status = "published"
        THEN [db[i] EXCEPT !.status = "draft"]
        ELSE db[i]]

\* The orders a queryset can yield a set of rows in.
Orders(S) ==
    {o \in UNION {[1..n -> S] : n \in {Cardinality(S)}} :
        \A i, j \in DOMAIN o : i # j => o[i] # o[j]}

-----------------------------------------------------------------------------
(* The lead forms of the enquiries app: the viewsets of enquiries/views.py as *)
(* the router of enquiries/urls.py registers them.                            *)

\* router.register(...) of enquiries/urls.py: the route and the viewset it names.
Registrations ==
    [r \in {"customer-support", "request-demo", "dealership-enquiry", "feedback",
            "testdrive-booking", "download-brochure"} |->
        CASE r = "customer-support" -> "CustomerSupportViewSet"
          [] r = "request-demo" -> "RequestDemoViewSet"
          [] r = "dealership-enquiry" -> "DealershipEnquiryViewSet"
          [] r = "feedback" -> "CustomerFeedbackViewSet"
          [] r = "testdrive-booking" -> "TestDriveBookingViewSet"
          [] r = "download-brochure" -> "DownloadBrochureViewSet"]

Resources == DOMAIN Registrations

\* The viewset classes enquiries/views.py defines.
DefinedViewSets ==
    {"CustomerSupportViewSet", "RequestDemoViewSet", "DealershipEnquiryViewSet",
     "CustomerFeedbackViewSet", "TestDriveBookingViewSet"}

Callers == {"anonymous", "user", "admin"}
LeadActions == {"create", "list", "retrieve", "update", "partial_update", "destroy"}

\* A JSON object of the form fields, or null, or no value at all (tag).
\* contact_number is "c" or "null"; checked is the field the serializer of the
\* resource validates by hand (vehicle_types, experience, vehicle_performance),
\* "good" or "bad".
Json(tag, contact_number, checked) ==
    [tag |-> tag, contact_number |-> contact_number, checked |-> checked]
JsonNull == Json("null", "", "")
JsonAbsent == Json("absent", "", "")

\* A submitted payload: the form fields and the raw_payload key, if any.
Payload(contact_number, checked, raw_payload) ==
    [contact_number |-> contact_number, checked |-> checked, raw_payload |-> raw_payload]
NoPayload == Payload("", "", JsonAbsent)

\* Well-formed and malformed submissions, without and with a raw_payload key.
Payloads ==
    {Payload("c", "good", JsonAbsent), Payload("null", "good", JsonAbsent),
     Payload("c", "bad", JsonAbsent),
     Payload("c", "good", Json("object", "c", "good")),
     Payload("c", "good", Json("object", "x", "good"))}

\* The payloads of PUT and PATCH.
Changes == {Payload("c", "good", JsonAbsent), Payload("null", "bad", JsonAbsent)}

\* A mutant of get_permissions: every action asks for an admin.
get_permissions_admin_only(action, caller) == caller = "admin"

\* PublicCreateAdminCRUDViewSet.get_permissions: AllowAny for create,
\* IsAdminUser (request.user.is_staff) for the rest.
get_permissions(action, caller) ==
    IF action = "create" THEN TRUE ELSE caller = "admin"

\* The validate_<field> methods and field types of the five serializers.
\* validate_contact_number refuses a null; a list field refuses a value that
\* is no list, experience a negative number, vehicle_performance a value
\* that is no object.  TestDriveBookingSerializer.validate_selected_models
\* names no field of the model and is never called.
is_valid(resource, data) ==
    CASE resource = "customer-support" -> data.contact_number # "null"
      [] resource = "request-demo" -> data.checked # "bad"
      [] resource = "dealership-enquiry" -> data.checked # "bad"
      [] resource = "feedback" -> data.checked # "bad"
      [] OTHER -> TRUE

\* The row serializer.save() writes: raw_payload is a model field like the
\* others, null unless the payload has the key.
LeadRow(data) ==
    [contact_number |-> data.contact_number, checked |-> data.checked,
     raw_payload |-> IF data.raw_payload.tag = "absent" THEN JsonNull
                     ELSE data.raw_payload]

LeadResponse(resource, action, caller, data, code, denied) ==
    [resource |-> resource, action |-> action, caller |-> caller, data |-> data,
     code |-> code, denied |-> denied]

RemoveAt(rows, pk) == [i \in 1..(Len(rows) - 1) |-> IF i < pk THEN rows[i] ELSE rows[i + 1]]

\* One request to /api/<resource>/: the tables and the response after it.
\* urls.py imports DownloadBrochureViewSet, which views.py does not define:
\* the route has no view behind it and the import raises.
dispatch(db, resource, action, caller, pk, data) ==
    IF Registrations[resource] \notin DefinedViewSets
    THEN [db |-> db, resp |-> LeadResponse(resource, action, caller, data, 500, FALSE)]
    ELSE IF ~get_permissions(action, caller)
    THEN [db |-> db, resp |-> LeadResponse(resource, action, caller, data, 403, TRUE)]
    ELSE IF action = "create"
    THEN IF is_valid(resource, data)
         THEN [db |-> [db EXCEPT ![resource] = Append(@, LeadRow(data))],
               resp |-> LeadResponse(resource, action, caller, data, 201, FALSE)]
         ELSE [db |-> db,
               resp |-> LeadResponse(resource, action, caller, data, 400, FALSE)]
    ELSE IF action = "list"
    THEN [db |-> db, resp |-> LeadResponse(resource, action, caller, data, 200, FALSE)]
    ELSE IF pk \notin DOMAIN db[resource]
    THEN [db |-> db, resp |-> LeadResponse(resource, action, caller, data, 404, FALSE)]
    ELSE IF action = "retrieve"
    THEN [db |-> db, resp |-> LeadResponse(resource, action, caller, data, 200, FALSE)]
    ELSE IF action = "destroy"
    THEN [db |-> [db EXCEPT ![resource] = RemoveAt(@, pk)],
          resp |-> LeadResponse(resource, action, caller, data, 204, FALSE)]
    ELSE IF ~is_valid(resource, data)
    THEN [db |-> db, resp |-> LeadResponse(resource, action, caller, data, 400, FALSE)]
    ELSE IF action = "update"
    THEN [db |-> [db EXCEPT ![resource][pk] = LeadRow(data)],
          resp |-> LeadResponse(resource, action, caller, data, 200, FALSE)]
    ELSE [db |-> [db EXCEPT ![resource][pk].contact_number = data.contact_number],
          resp |-> LeadResponse(resource, action, caller, data, 200, FALSE)]

InitLeads ==
    /\ leads = [r \in Resources |-> <<>>]
    /\ lead_resp = LeadResponse("customer-support", "none", "anonymous", NoPayload, 0, FALSE)

-----------------------------------------------------------------------------
(* The SEO tags of the seo app: SEOTag, its write serializer and its viewset. *)
(* Text fields are strings here; "" is a blank field.                         *)

MaxTags == 2
MaxSaves == 2
MaxEdits == 1

PageIds == {"home", "about"}
MissingPage == "none"

\* An SEOTag instance as SEOTag(...) constructs it: every text field blank.
BlankTag ==
    [page_id |-> "", page_path |-> "", page_title |-> "", meta_description |-> "",
     og_title |-> "", og_description |-> "", og_url |-> "", og_image_url |-> "",
     twitter_title |-> "", twitter_description |-> "", twitter_image_url |-> ""]

TagFields ==
    {"page_title", "meta_description", "og_title", "og_description", "og_url",
     "og_image_url", "twitter_title", "twitter_description", "twitter_image_url"}

\* The instances a caller of the model constructs for one page: each of the
\* nine text fields blank or filled in.
TagForms ==
    [page_id : {"home"}, page_path : {"/p"}, page_title : {"", "T"},
     meta_description : {"", "M"}, og_title : {"", "O"}, og_description : {"", "D"},
     og_url : {"", "U"}, og_image_url : {"", "I"}, twitter_title : {"", "W"},
     twitter_description : {"", "X"}, twitter_image_url : {"", "J"}]

\* The payload of the API for a page: the serializer requires every field.
FullTag(page_id) ==
    [page_id |-> page_id, page_path |-> "/p", page_title |-> "T",
     meta_description |-> "M", og_title |-> "O", og_description |-> "D",
     og_url |-> "U", og_image_url |-> "I", twitter_title |-> "W",
     twitter_description |-> "X", twitter_image_url |-> "J"]

OrElse(value, default) == IF value = "" THEN default ELSE value

\* A mutant of SEOTag_save: the Twitter fields are filled in before the
\* Open-Graph fields are.
SEOTag_save_twitter_first(inst) ==
    LET tw == [inst EXCEPT
                 !.twitter_title = OrElse(inst.twitter_title, inst.og_title),
                 !.twitter_description =
                     OrElse(inst.twitter_description, inst.og_description),
                 !.twitter_image_url =
                     OrElse(inst.twitter_image_url, inst.og_image_url)]
    IN [tw EXCEPT
          !.og_title = OrElse(inst.og_title, inst.page_title),
          !.og_description = OrElse(inst.og_description, inst.meta_description),
          !.og_url = OrElse(inst.og_url, "https://www.evall.in" \o inst.page_path)]

\* SEOTag.save before super().save(): the instance with its blank fields
\* filled in, Open-Graph first, Twitter from the result.
SEOTag_save(inst) ==
    LET og == [inst EXCEPT
                 !.og_title = OrElse(inst.og_title, inst.page_title),
                 !.og_description = OrElse(inst.og_description, inst.meta_description),
                 !.og_url = OrElse(inst.og_url, "https://www.evall.in" \o inst.page_path)]
    IN [og EXCEPT
          !.twitter_title = OrElse(og.twitter_title, og.og_title),
          !.twitter_description = OrElse(og.twitter_description, og.og_description),
          !.twitter_image_url = OrElse(og.twitter_image_url, og.og_image_url)]

PageIdTaken(db, page_id, pk) == \E i \in DOMAIN db : i # pk /\ db[i].page_id = page_id

\* A mutant of validate_page_id: every page_id is accepted.
validate_page_id_any(db, pk, value) == TRUE

\* SEOTagWriteSerializer.validate_page_id; pk is 0 on create.
validate_page_id(db, pk, value) == ~PageIdTaken(db, value, pk)

\* get_object with lookup_field = 'page_id': the pk, or 0 for 404.
get_tag(db, page_id) ==
    LET found == {i \in DOMAIN db : db[i].page_id = page_id}
    IN IF found = {} THEN 0 ELSE CHOOSE i \in found : TRUE

\* What an operation on SEO tags ended with: n counts the saves of the
\* instance in memory since it was last changed, edits its changes.
SeoResponse(op, page_id, sent, code, msg) ==
    [op |-> op, page_id |-> page_id, sent |-> sent, code |-> code, msg |-> msg,
     n |-> 0, edits |-> 0]

\* The unique index on page_id, then the INSERT or UPDATE of super().save().
WriteTag(db, pk, row, op, page_id, code) ==
    IF PageIdTaken(db, row.page_id, pk)
    THEN [db |-> db, pk |-> pk,
          resp |-> SeoResponse(op, page_id, row.page_id, 500, "IntegrityError")]
    ELSE IF pk = 0
    THEN [db |-> Append(db, row), pk |-> Len(db) + 1,
          resp |-> SeoResponse(op, page_id, row.page_id, code, "")]
    ELSE [db |-> [db EXCEPT ![pk] = row], pk |-> pk,
          resp |-> SeoResponse(op, page_id, row.page_id, code, "")]

\* POST /api/seo/
seo_create(db, data) ==
    IF ~validate_page_id(db, 0, data.page_id)
    THEN [db |-> db, pk |-> 0,
          resp |-> SeoResponse("create", "", data.page_id, HTTP_400_BAD_REQUEST,
                               "page_id exists")]
    ELSE WriteTag(db, 0, SEOTag_save(data), "create", "", 201)

\* PATCH /api/seo/{page_id}/ with a page_id in the payload.
seo_partial_update(db, page_id, sent) ==
    LET pk == get_tag(db, page_id)
    IN IF pk = 0
       THEN [db |-> db, pk |-> 0,
             resp |-> SeoResponse("update", page_id, sent, 404, "not found")]
       ELSE IF ~validate_page_id(db, pk, sent)
       THEN [db |-> db, pk |-> pk,
             resp |-> SeoResponse("update", page_id, sent, HTTP_400_BAD_REQUEST,
                                  "page_id exists")]
       ELSE WriteTag(db, pk, SEOTag_save([db[pk] EXCEPT !.page_id = sent]),
                     "update", page_id, 200)

InitSeo ==
    /\ seo_tags = <<>>
    /\ seo_tag = [pk |-> 0, row |-> BlankTag]
    /\ seo_resp = SeoResponse("none", "", "", 0, "")

-----------------------------------------------------------------------------
(* AdvancedSEO: the site-wide settings row. A row is its primary key and one  *)
(* of its text fields; an unsaved instance has pk 0 (None).                   *)

MaxAdvRows == 2
Scripts == {"", "ga"}

AdvRow(pk, header_script) == [pk |-> pk, header_script |-> header_script]
AdvPks(db) == {r.pk : r \in db}
NextPk(db) == IF db = {} THEN 1 ELSE Max(CHOOSE m \in AdvPks(db) :
                                           \A k \in AdvPks(db) : k <= m, 0) + 1

\* A mutant of AdvancedSEO_pk: save keeps the primary key of the instance.
AdvancedSEO_pk_kept(pk) == pk

\* AdvancedSEO.save: self.pk = 1
AdvancedSEO_pk(pk) == 1

\* An operation of a worker between its SQL statements.
AdvOp(op, step, pk, header_script) ==
    [op |-> op, step |-> step, pk |-> pk, header_script |-> header_script]
AdvIdle == AdvOp("idle", "none", 0, "")
AdvResponse(op, result) == [op |-> op, result |-> result]

\* The UPDATE of Model.save: the rows with the key take the new values.
DoUpdate(db, row) == {IF r.pk = row.pk THEN row ELSE r : r \in db}

\* AdvancedSEO.delete: pass
AdvancedSEO_delete(db, pk) == db

\* The instances save is called on: fresh ones (pk 0) and loaded ones.
InstancePks(db) == {0} \cup AdvPks(db)

InitAdv ==
    /\ advanced = {}
    /\ adv_reqs = [w \in Workers |-> AdvIdle]
    /\ adv_resp = AdvResponse("none", "none")

InitSite == InitLeads /\ InitSeo /\ InitAdv

-----------------------------------------------------------------------------
(* Inputs of the requests *)

Titles == {<<"A", "!">>, <<"A", " ", "1">>}
ExplicitSlugs == {<<"a", "-", "1">>}
MissingSlug == <<"z">>
Statuses == {"draft", "published"}
Patches ==
    {SlugPatch(v) : v \in ExplicitSlugs} \cup {StatusPatch(v) : v \in Statuses}
    \cup {ContentPatch(v) : v \in StoreDocs}

\* The slugs a URL can name: those of the stored posts and one of no post.
UrlSlugs(db) == {db[i].slug : i \in DOMAIN db} \cup {MissingSlug}

Idle == Pending("idle", <<>>, "none", 0, NoRow, 0, "", 0)

-----------------------------------------------------------------------------
(* Spec: the handlers run one after another, each as one step *)

InitStore ==
    /\ posts = <<>>
    /\ now = 1
    /\ resp = Response("none", <<>>, 0, 0, "")
    /\ reqs = [w \in Workers |-> Idle]
    /\ started = 0
    /\ InitSite

NoDoc ==
    /\ content = NullContent
    /\ meta_description = <<>>
    /\ reading_time = NotRunInt
    /\ excerpt = NotRunStr

Init == NoDoc /\ InitStore

\* A whole request: the handler and its write, with nothing in between.
Apply(p) ==
    /\ p.clock <= MaxTime
    /\ LET c == Commit(posts, p)
       IN posts' = c.db /\ resp' = c.resp
    /\ now' = p.clock
    /\ UNCHANGED <<reqs, started>>
    /\ UNCHANGED docVars
    /\ UNCHANGED siteVars

\* The view counter is capped by the bound MaxViews.
ViewsInBound(p) == p.write = "views" => posts[p.pk].views_count < MaxViews

Create ==
    /\ Len(posts) < MaxPosts
    /\ \E title \in Titles, slug \in {<<>>} \cup ExplicitSlugs,
          status \in Statuses, doc \in StoreDocs :
            Apply(create(posts, now, title, slug, status, doc))

Update ==
    \E slug \in UrlSlugs(posts), include_drafts \in BOOLEAN, patch \in Patches :
        Apply(partial_update(posts, now, slug, include_drafts, patch))

Publish ==
    \E slug \in UrlSlugs(posts), include_drafts \in BOOLEAN :
        Apply(publish(posts, now, slug, include_drafts))

Unpublish ==
    \E slug \in UrlSlugs(posts), include_drafts \in BOOLEAN :
        Apply(unpublish(posts, now, slug, include_drafts))

Retrieve ==
    \E slug \in UrlSlugs(posts), include_drafts \in BOOLEAN :
        /\ ViewsInBound(retrieve(posts, now, slug, include_drafts))
        /\ Apply(retrieve(posts, now, slug, include_drafts))

Next == Create \/ Update \/ Publish \/ Unpublish \/ Retrieve

Spec == Init /\ [][Next]_vars

-----------------------------------------------------------------------------
(* SpecCreate: posts are created one after another from a title alone *)

MaxCreated == 4
CreateTitles == Titles \cup {<<"a">>, <<"!">>}

CreateFromTitle ==
    /\ Len(posts) < MaxCreated
    /\ \E title \in CreateTitles :
          Apply(create(posts, now, title, <<>>, "draft", NullContent))

SpecCreate == Init /\ [][CreateFromTitle]_vars

-----------------------------------------------------------------------------
(* SpecConc: requests of several workers interleave; a request reads the     *)
(* table when it starts and writes when it finishes.                          *)

PendingInserts == Cardinality({w \in Workers : reqs[w].write = "insert"})

Start(w, p) ==
    /\ reqs[w] = Idle
    /\ started < MaxRequests
    /\ p.clock <= MaxTime
    /\ reqs' = [reqs EXCEPT ![w] = p]
    /\ now' = p.clock
    /\ started' = started + 1
    /\ UNCHANGED <<posts, resp>>
    /\ UNCHANGED docVars
    /\ UNCHANGED siteVars

StartCreate(w) ==
    /\ Len(posts) + PendingInserts < MaxPosts
    /\ \E title \in Titles, slug \in {<<>>} \cup ExplicitSlugs,
          status \in Statuses, doc \in StoreDocs :
            Start(w, create(posts, now, title, slug, status, doc))

StartUpdate(w) ==
    \E slug \in UrlSlugs(posts), include_drafts \in BOOLEAN, patch \in Patches :
        Start(w, partial_update(posts, now, slug, include_drafts, patch))

StartPublish(w) ==
    \E slug \in UrlSlugs(posts), include_drafts \in BOOLEAN :
        Start(w, publish(posts, now, slug, include_drafts))

StartUnpublish(w) ==
    \E slug \in UrlSlugs(posts), include_drafts \in BOOLEAN :
        Start(w, unpublish(posts, now, slug, include_drafts))

StartRetrieve(w) ==
    \E slug \in UrlSlugs(posts), include_drafts \in BOOLEAN :
        /\ ViewsInBound(retrieve(posts, now, slug, include_drafts))
        /\ Start(w, retrieve(posts, now, slug, include_drafts))

Finish(w) ==
    /\ reqs[w] # Idle
    /\ LET c == Commit(posts, reqs[w])
       IN posts' = c.db /\ resp' = c.resp
    /\ reqs' = [reqs EXCEPT ![w] = Idle]
    /\ UNCHANGED <<now, started>>
    /\ UNCHANGED docVars
    /\ UNCHANGED siteVars

NextConc ==
    \E w \in Workers :
        \/ StartCreate(w)
        \/ StartUpdate(w)
        \/ StartPublish(w)
        \/ StartUnpublish(w)
        \/ StartRetrieve(w)
        \/ Finish(w)

SpecConc == Init /\ [][NextConc]_vars

-----------------------------------------------------------------------------
(* SpecList: posts are created, published and unpublished, and listed *)

Categories == {"news", "events"}
Limits == {[tag |-> "absent", v |-> 0], [tag |-> "bad", v |-> 0],
           [tag |-> "int", v |-> 0], [tag |-> "int", v |-> 1]}

\* A read-only request: the table stays, the response is the listing.
Answer(r) ==
    /\ resp' = r
    /\ UNCHANGED <<posts, now, reqs, started>>
    /\ UNCHANGED docVars
    /\ UNCHANGED siteVars

CreateTagged ==
    /\ Len(posts) < MaxPosts
    /\ \E title \in Titles, status \in Statuses,
          category \in Categories, is_featured \in BOOLEAN :
            Apply(create_tagged(posts, now, title, <<>>, status, NullContent,
                                category, is_featured))

List ==
    \E include_drafts \in BOOLEAN, status \in {""} \cup Statuses :
        Answer(list(posts, include_drafts, status))

Featured ==
    \E include_drafts \in BOOLEAN : Answer(featured(posts, include_drafts))

ByCategory ==
    \E include_drafts \in BOOLEAN, category \in {""} \cup Categories :
        Answer(by_category(posts, include_drafts, category))

Latest ==
    \E include_drafts \in BOOLEAN, limit \in Limits :
        \E r \in latest(posts, include_drafts, limit) : Answer(r)

NextList ==
    CreateTagged \/ Publish \/ Unpublish \/ List \/ Featured \/ ByCategory \/ Latest

SpecList == Init /\ [][NextList]_vars

-----------------------------------------------------------------------------
(* SpecLeads: callers of the three kinds send requests to the lead forms *)

MaxLeads == 2

TotalLeads == Len(leads["customer-support"]) + Len(leads["request-demo"])
              + Len(leads["dealership-enquiry"]) + Len(leads["feedback"])
              + Len(leads["testdrive-booking"]) + Len(leads["download-brochure"])

LeadRequest(resource, action, caller, pk, data) ==
    /\ LET d == dispatch(leads, resource, action, caller, pk, data)
       IN leads' = d.db /\ lead_resp' = d.resp
    /\ UNCHANGED docVars
    /\ UNCHANGED storeVars
    /\ UNCHANGED <<seoVars, advVars>>

\* POST /api/<resource>/
LeadCreate ==
    /\ TotalLeads < MaxLeads
    /\ \E resource \in Resources, caller \in Callers, data \in Payloads :
          LeadRequest(resource, "create", caller, 0, data)

\* GET /api/<resource>/ and GET /api/<resource>/<pk>/
LeadRead ==
    \E resource \in Resources, caller \in Callers, pk \in 0..MaxLeads :
        LeadRequest(resource, IF pk = 0 THEN "list" ELSE "retrieve", caller, pk, NoPayload)

\* PUT and PATCH /api/<resource>/<pk>/
LeadUpdate ==
    \E resource \in Resources, caller \in Callers, pk \in 1..MaxLeads,
       action \in {"update", "partial_update"}, data \in Changes :
        LeadRequest(resource, action, caller, pk, data)

\* DELETE /api/<resource>/<pk>/
LeadDestroy ==
    \E resource \in Resources, caller \in Callers, pk \in 1..MaxLeads :
        LeadRequest(resource, "destroy", caller, pk, NoPayload)

NextLeads == LeadCreate \/ LeadRead \/ LeadUpdate \/ LeadDestroy

SpecLeads == Init /\ [][NextLeads]_vars

-----------------------------------------------------------------------------
(* SpecViews: one post exists and is retrieved by several workers at once *)

\* The table after one successful create request.
InitViews ==
    /\ NoDoc
    /\ \E title \in Titles, slug \in {<<>>} \cup ExplicitSlugs,
          status \in Statuses, doc \in {NullContent, LongDoc} :
          LET p == create(<<>>, 1, title, slug, status, doc)
              c == Commit(<<>>, p)
          IN posts = c.db /\ resp = c.resp /\ now = p.clock
    /\ reqs = [w \in Workers |-> Idle]
    /\ started = 0
    /\ InitSite

\* GET /api/blogs/{slug}/?include_drafts=true for the slug of the post.
StartView(w) ==
    \E i \in DOMAIN posts : Start(w, retrieve(posts, now, posts[i].slug, TRUE))

NextViews == \E w \in Workers : StartView(w) \/ Finish(w)

SpecViews == InitViews /\ [][NextViews]_vars

-----------------------------------------------------------------------------
(* SpecDup: posts and SEO tags are created and renamed through the API, with  *)
(* slugs and page ids that may be taken already.                              *)

\* POST /api/blogs/ with or without a slug in the payload.
CreateWithSlug ==
    /\ Len(posts) < MaxPosts
    /\ \E title \in Titles, slug \in {<<>>} \cup ExplicitSlugs, status \in Statuses :
          Apply(create(posts, now, title, slug, status, NullContent))

\* PATCH /api/blogs/{slug}/ with a slug in the payload, taken or free.
ChangeSlug ==
    \E slug \in UrlSlugs(posts), include_drafts \in BOOLEAN,
       sent \in {posts[i].slug : i \in DOMAIN posts} \cup ExplicitSlugs :
        Apply(partial_update(posts, now, slug, include_drafts, SlugPatch(sent)))

\* The end of a request on SEO tags; the blog and the in-memory instance stay.
SeoAnswer(r) ==
    /\ seo_tags' = r.db
    /\ seo_resp' = r.resp
    /\ UNCHANGED <<seo_tag, leadVars, advVars>>
    /\ UNCHANGED docVars
    /\ UNCHANGED storeVars

SeoCreate ==
    /\ Len(seo_tags) < MaxTags
    /\ \E page_id \in PageIds : SeoAnswer(seo_create(seo_tags, FullTag(page_id)))

SeoUpdate ==
    \E page_id \in PageIds \cup {MissingPage}, sent \in PageIds :
        SeoAnswer(seo_partial_update(seo_tags, page_id, sent))

NextDup == CreateWithSlug \/ ChangeSlug \/ SeoCreate \/ SeoUpdate

SpecDup == Init /\ [][NextDup]_vars

-----------------------------------------------------------------------------
(* SpecSeoSave: one SEOTag instance is constructed, saved, changed and saved  *)
(* again by code that calls the model.                                        *)

SeoModelStep ==
    /\ UNCHANGED <<leadVars, advVars>>
    /\ UNCHANGED docVars
    /\ UNCHANGED storeVars

\* SEOTag(**fields)
NewTag ==
    /\ seo_resp.op = "none"
    /\ \E inst \in TagForms :
          /\ seo_tag' = [pk |-> 0, row |-> inst]
          /\ seo_resp' = SeoResponse("new", inst.page_id, "", 0, "")
    /\ UNCHANGED seo_tags
    /\ SeoModelStep

\* instance.<field> = value, on an instance that was saved
EditTag ==
    /\ seo_resp.op = "save"
    /\ seo_resp.edits < MaxEdits
    /\ \E f \in TagFields, v \in {"", "Z"} :
          /\ seo_tag.row[f] # v
          /\ seo_tag' = [seo_tag EXCEPT !.row[f] = v]
    /\ seo_resp' = [SeoResponse("edit", seo_resp.page_id, "", 0, "")
                      EXCEPT !.edits = seo_resp.edits + 1]
    /\ UNCHANGED seo_tags
    /\ SeoModelStep

\* instance.save()
SaveTag ==
    /\ seo_resp.op \in {"new", "edit", "save"}
    /\ seo_resp.op = "save" => seo_resp.n < MaxSaves
    /\ LET row == SEOTag_save(seo_tag.row)
           w == WriteTag(seo_tags, seo_tag.pk, row, "save", row.page_id, 200)
       IN /\ seo_tags' = w.db
          /\ seo_tag' = [pk |-> w.pk, row |-> row]
          /\ seo_resp' = [w.resp EXCEPT
                            !.n = IF seo_resp.op = "save" THEN seo_resp.n + 1 ELSE 1,
                            !.edits = seo_resp.edits]
    /\ SeoModelStep

NextSeoSave == NewTag \/ EditTag \/ SaveTag

SpecSeoSave == Init /\ [][NextSeoSave]_vars

-----------------------------------------------------------------------------
(* SpecAdv: workers save, delete and load the AdvancedSEO settings; the SQL   *)
(* statements of different workers interleave.                                *)

AdvFrame ==
    /\ UNCHANGED <<leadVars, seoVars>>
    /\ UNCHANGED docVars
    /\ UNCHANGED storeVars

\* instance.save(): the key is set, then Model.save tries an UPDATE by that
\* key and goes on to an INSERT when it changed no row.
AdvSave(w) ==
    /\ adv_reqs[w] = AdvIdle
    /\ \E inst_pk \in InstancePks(advanced), header_script \in Scripts :
          LET pk == AdvancedSEO_pk(inst_pk)
          IN IF pk \in AdvPks(advanced)
             THEN /\ advanced' = DoUpdate(advanced, AdvRow(pk, header_script))
                  /\ adv_resp' = AdvResponse("save", "updated")
                  /\ UNCHANGED adv_reqs
             ELSE /\ adv_reqs' =
                        [adv_reqs EXCEPT ![w] = AdvOp("save", "insert", pk, header_script)]
                  /\ UNCHANGED <<advanced, adv_resp>>
    /\ AdvFrame

\* The INSERT of a save: the primary key index refuses a key that is stored.
AdvInsert(w) ==
    /\ adv_reqs[w].step = "insert"
    /\ LET r == adv_reqs[w]
           pk == IF r.pk = 0 THEN NextPk(advanced) ELSE r.pk
       IN IF pk \in AdvPks(advanced)
          THEN /\ adv_resp' = AdvResponse("save", "IntegrityError")
               /\ UNCHANGED advanced
          ELSE /\ Cardinality(advanced) < MaxAdvRows
               /\ advanced' = advanced \cup {AdvRow(pk, r.header_script)}
               /\ adv_resp' = AdvResponse("save", "inserted")
    /\ adv_reqs' = [adv_reqs EXCEPT ![w] = AdvIdle]
    /\ AdvFrame

\* instance.delete()
AdvDelete(w) ==
    /\ adv_reqs[w] = AdvIdle
    /\ \E pk \in InstancePks(advanced) : advanced' = AdvancedSEO_delete(advanced, pk)
    /\ adv_resp' = AdvResponse("delete", "none")
    /\ UNCHANGED adv_reqs
    /\ AdvFrame

\* get_or_create(pk=1), first half: the SELECT.
GetOrCreate(w, op) ==
    /\ adv_reqs[w] = AdvIdle
    /\ IF 1 \in AdvPks(advanced)
       THEN /\ adv_resp' = AdvResponse(op, "found")
            /\ UNCHANGED adv_reqs
       ELSE /\ adv_reqs' = [adv_reqs EXCEPT ![w] = AdvOp(op, "create", 1, "")]
            /\ UNCHANGED adv_resp
    /\ UNCHANGED advanced
    /\ AdvFrame

\* AdvancedSEO.load()
AdvLoad(w) == GetOrCreate(w, "load")

\* GET /api/seo/full-seo/
FullSeo(w) == GetOrCreate(w, "full_seo")

\* get_or_create(pk=1), second half: create() saves with force_insert; on an
\* IntegrityError the row is selected again.
AdvCreate(w) ==
    /\ adv_reqs[w].step = "create"
    /\ LET pk == AdvancedSEO_pk(adv_reqs[w].pk)
       IN IF pk \in AdvPks(advanced)
          THEN /\ adv_resp' = AdvResponse(adv_reqs[w].op, "refetched")
               /\ UNCHANGED advanced
          ELSE /\ advanced' = advanced \cup {AdvRow(pk, "")}
               /\ adv_resp' = AdvResponse(adv_reqs[w].op, "created")
    /\ adv_reqs' = [adv_reqs EXCEPT ![w] = AdvIdle]
    /\ AdvFrame

NextAdv ==
    \E w \in Workers :
        AdvSave(w) \/ AdvInsert(w) \/ AdvDelete(w) \/ AdvLoad(w) \/ FullSeo(w)
        \/ AdvCreate(w)

SpecAdv == Init /\ [][NextAdv]_vars

-----------------------------------------------------------------------------
(* SpecPublish: one post exists; workers publish and unpublish it at once *)

NextPublish == \E w \in Workers : StartPublish(w) \/ StartUnpublish(w) \/ Finish(w)

SpecPublish == InitViews /\ [][NextPublish]_vars

-----------------------------------------------------------------------------
(* SpecAdmin: the API requests of Spec, a save that changes nothing, and the  *)
(* bulk actions of the admin site, one after another.                         *)

\* The documents and the payloads of the requests of SpecAdmin and
\* SpecAdminConc: posts are created without a slug, a PATCH replaces the status or
\* the content.
AdminDocs == {NullContent, LongDoc}
AdminPatches ==
    {StatusPatch(v) : v \in Statuses} \cup {ContentPatch(v) : v \in AdminDocs}

CreatePost ==
    /\ Len(posts) < MaxPosts
    /\ \E title \in Titles, status \in Statuses, doc \in AdminDocs :
          Apply(create(posts, now, title, <<>>, status, doc))

EditPost ==
    \E slug \in UrlSlugs(posts), include_drafts \in BOOLEAN, patch \in AdminPatches :
        Apply(partial_update(posts, now, slug, include_drafts, patch))

Resave ==
    \E slug \in UrlSlugs(posts), include_drafts \in BOOLEAN :
        Apply(resave(posts, now, slug, include_drafts))

\* Action "Publish selected posts" on a selection of the change list.
AdminPublishPosts ==
    \E selected \in SUBSET DOMAIN posts :
        \E order \in Orders({i \in selected : posts[i].status = "draft"}) :
            LET r == publish_posts(posts, now, order)
            IN /\ selected # {}
               /\ r.clock <= MaxTime
               /\ posts' = r.db
               /\ now' = r.clock
               /\ resp' = [Response("publish_posts", <<>>, r.code, 0, "")
                             EXCEPT !.pks = selected]
               /\ UNCHANGED <<reqs, started>>
               /\ UNCHANGED docVars
               /\ UNCHANGED siteVars

\* Action "Unpublish selected posts": one UPDATE statement.
AdminUnpublishPosts ==
    \E selected \in SUBSET DOMAIN posts :
        /\ selected # {}
        /\ posts' = unpublish_posts(posts, selected)
        /\ resp' = [Response("unpublish_posts", <<>>, 200, 0, "")
                      EXCEPT !.pks = selected]
        /\ UNCHANGED <<now, reqs, started>>
        /\ UNCHANGED docVars
        /\ UNCHANGED siteVars

NextAdmin ==
    CreatePost \/ EditPost \/ Publish \/ Unpublish \/ Retrieve \/ Resave
    \/ AdminPublishPosts \/ AdminUnpublishPosts

SpecAdmin == Init /\ [][NextAdmin]_vars

-----------------------------------------------------------------------------
(* SpecAdminConc: the requests of SpecConc interleaved with the bulk actions; *)
(* publish_posts reads a selected draft when it starts and saves it later.    *)

StartCreatePost(w) ==
    /\ Len(posts) + PendingInserts < MaxPosts
    /\ \E title \in Titles, status \in Statuses, doc \in AdminDocs :
          Start(w, create(posts, now, title, <<>>, status, doc))

StartEditPost(w) ==
    \E slug \in UrlSlugs(posts), include_drafts \in BOOLEAN, patch \in AdminPatches :
        Start(w, partial_update(posts, now, slug, include_drafts, patch))

StartAdminPublish(w) ==
    \E pk \in DOMAIN posts :
        /\ posts[pk].status = "draft"
        /\ Start(w, publish_post(posts, now, pk))

NextAdminConc ==
    \/ \E w \in Workers :
          \/ StartCreatePost(w)
          \/ StartEditPost(w)
          \/ StartPublish(w)
          \/ StartUnpublish(w)
          \/ StartRetrieve(w)
          \/ StartAdminPublish(w)
          \/ Finish(w)
    \/ AdminUnpublishPosts

SpecAdminConc == Init /\ [][NextAdminConc]_vars

-----------------------------------------------------------------------------
(* SpecRoute: posts are created from titles, and GET requests for their      *)
(* slugs go through the URL patterns of the router.                          *)

RouteTitles == {<<"L", "a", "t", "e", "s", "t">>, <<"A", " ", "1">>, <<"!">>}
NoLimit == [tag |-> "absent", v |-> 0]

CreateTitled ==
    /\ Len(posts) < MaxPosts
    /\ \E title \in RouteTitles, status \in Statuses :
          Apply(create(posts, now, title, <<>>, status, NullContent))

\* GET /api/blogs/<segment>/ where the detail route is the first match.
GetDetail ==
    \E segment \in UrlSlugs(posts), include_drafts \in BOOLEAN :
        /\ route(segment) = "retrieve"
        /\ LET p == retrieve(posts, now, segment, include_drafts)
           IN ViewsInBound(p) /\ Apply(p)

\* GET /api/blogs/<segment>/ where the route of latest is the first match.
GetLatest ==
    \E segment \in UrlSlugs(posts), include_drafts \in BOOLEAN :
        /\ route(segment) = "latest"
        /\ \E r \in latest(posts, include_drafts, NoLimit) :
              Answer([r EXCEPT !.slug = segment])

\* GET /api/blogs/<segment>/ where no pattern matches.
GetNothing ==
    \E segment \in UrlSlugs(posts) :
        /\ route(segment) = "none"
        /\ Answer(Response("none", segment, 404, 0, "not found"))

NextRoute == CreateTitled \/ GetDetail \/ GetLatest \/ GetNothing

SpecRoute == Init /\ [][NextRoute]_vars

-----------------------------------------------------------------------------
(* SpecRound: one post whose document is written by create and PATCH, read    *)
(* by retrieve, and saved by publish, unpublish and a PATCH of nothing.       *)

MaxRoundPosts == 1

CreateDoc ==
    /\ Len(posts) < MaxRoundPosts
    /\ \E title \in Titles, status \in Statuses, doc \in RoundDocs :
          Apply(create(posts, now, title, <<>>, status, doc))

PatchDoc ==
    \E slug \in UrlSlugs(posts), doc \in RoundDocs :
        Apply(partial_update(posts, now, slug, TRUE, ContentPatch(doc)))

NextRound == CreateDoc \/ PatchDoc \/ Publish \/ Unpublish \/ Retrieve \/ Resave

SpecRound == Init /\ [][NextRound]_vars

-----------------------------------------------------------------------------
(* SpecDoc: the derivation functions applied to every document of the bound *)

InitDoc ==
    /\ content \in Shapes
    /\ meta_description \in Metas
    /\ reading_time = NotRunInt
    /\ excerpt = NotRunStr
    /\ InitStore

\* The editor appends one block to the document.
AppendBlock ==
    /\ content.keys = "blocks" /\ content.blocks.tag = "list"
    /\ Len(content.blocks.xs) < MaxBlocks
    /\ reading_time.tag = "none" /\ excerpt.tag = "none"
    /\ \E b \in Blocks : content' = Doc(Append(content.blocks.xs, b))
    /\ UNCHANGED <<meta_description, reading_time, excerpt>>
    /\ UNCHANGED storeVars
    /\ UNCHANGED siteVars

\* save() derives the reading time of the document.
ComputeReadingTime ==
    /\ reading_time.tag = "none"
    /\ reading_time' = calculate_reading_time(content)
    /\ UNCHANGED <<content, meta_description, excerpt>>
    /\ UNCHANGED storeVars
    /\ UNCHANGED siteVars

\* The list serializer derives the excerpt of the post.
ComputeExcerpt ==
    /\ excerpt.tag = "none"
    /\ excerpt' = get_excerpt(meta_description, content)
    /\ UNCHANGED <<content, meta_description, reading_time>>
    /\ UNCHANGED storeVars
    /\ UNCHANGED siteVars

NextDoc == AppendBlock \/ ComputeReadingTime \/ ComputeExcerpt

SpecDoc == InitDoc /\ [][NextDoc]_vars

-----------------------------------------------------------------------------
(* What the specification says of a document *)

\* The kind a tag names, whatever its capitalization.
Canonical(k) ==
    IF k = "Paragraph" THEN "paragraph"
    ELSE IF k = "Header" THEN "header"
    ELSE IF k = "Quote" THEN "quote"
    ELSE IF k = "List" THEN "list"
    ELSE k

\* The other capitalization of a tag.
Recased(k) ==
    IF k = "paragraph" THEN "Paragraph" ELSE IF k = "Paragraph" THEN "paragraph"
    ELSE IF k = "header" THEN "Header" ELSE IF k = "Header" THEN "header"
    ELSE IF k = "quote" THEN "Quote" ELSE IF k = "Quote" THEN "quote"
    ELSE IF k = "list" THEN "List" ELSE IF k = "List" THEN "list"
    ELSE k

RecasedAt(c, i) == Doc([c.blocks.xs EXCEPT ![i].type = Recased(@)])

IsBlockList(c) == HasBlocks(c) /\ c.blocks.tag = "list"

\* A block of the shape the specification gives its kind: a kind tag, a data
\* payload, a text string for a text kind, item strings for a list.
ValidBlock(b) ==
    /\ b.tag = "dict" /\ b.type # "absent" /\ b.data.tag = "dict"
    /\ Canonical(b.type) \in {"paragraph", "header", "quote"} => b.data.text.tag = "str"
    /\ Canonical(b.type) = "list" =>
          /\ b.data.items.tag = "list"
          /\ \A j \in 1..Len(b.data.items.xs) : b.data.items.xs[j].tag = "str"

\* A document is absent, or a sequence of valid blocks.
ValidDoc(c) ==
    \/ c = NullContent
    \/ IsBlockList(c) /\ \A i \in 1..Len(c.blocks.xs) : ValidBlock(c.blocks.xs[i])

\* Whitespace-separated words, counted at the end of each word.
Words(s) ==
    Cardinality({i \in 1..Len(s) : s[i] # " " /\ (i = Len(s) \/ s[i + 1] = " ")})

RECURSIVE ItemWords(_)
ItemWords(xs) ==
    IF xs = <<>> THEN 0 ELSE Words(StripTags(Head(xs).s)) + ItemWords(Tail(xs))

WordsOfBlock(b) ==
    IF Canonical(b.type) \in {"paragraph", "header", "quote"}
    THEN Words(StripTags(b.data.text.s))
    ELSE IF Canonical(b.type) = "list" THEN ItemWords(b.data.items.xs)
    ELSE 0

RECURSIVE TotalWords(_)
TotalWords(bs) == IF bs = <<>> THEN 0 ELSE WordsOfBlock(Head(bs)) + TotalWords(Tail(bs))

\* W of a valid document.
W(c) == IF c = NullContent THEN 0 ELSE TotalWords(c.blocks.xs)

ParagraphBlocks(c) ==
    IF c = NullContent THEN {}
    ELSE {i \in 1..Len(c.blocks.xs) : Canonical(c.blocks.xs[i].type) = "paragraph"}

\* The excerpt of a valid document of a post with description m.
ExcerptOf(m, c) ==
    IF m # <<>> THEN m
    ELSE IF ParagraphBlocks(c) = {} THEN <<>>
    ELSE LET text == StripTags(c.blocks.xs[Min(ParagraphBlocks(c))].data.text.s)
         IN IF Len(text) <= EXCERPT_LENGTH THEN text
            ELSE SubSeq(text, 1, EXCERPT_LENGTH) \o Ellipsis

-----------------------------------------------------------------------------
(* Claims on the derivation functions, under SpecDoc *)

\* C1: for every document, calculate_reading_time returns max(1, round(W / 200)),
\* W the number of whitespace-separated words, markup stripped, of the text of
\* every paragraph, header and quote block and of every item of every list
\* block; at least 1 also for an absent or empty document.  Stated for the
\* valid documents, on which the function returns.
C1_ReadingTimeIsRoundedWordCount ==
    (reading_time.tag # "none" /\ ValidDoc(content)) =>
        /\ reading_time = Ok(Max(1, PyRound(W(content), WORDS_PER_MINUTE)))
        /\ reading_time.v >= 1

\* C2: neither derivation function ever raises, whatever the document value.
C2_DerivationsNeverRaise ==
    reading_time.tag # "raise" /\ excerpt.tag # "raise"

\* C3: replacing the kind tag of any block by its other capitalization leaves
\* both the reading time and the excerpt unchanged.  Stated for the valid
\* documents, on which both functions return.
C3_KindCaseInsensitive ==
    (IsBlockList(content) /\ ValidDoc(content)) =>
        \A i \in 1..Len(content.blocks.xs) :
            /\ calculate_reading_time(RecasedAt(content, i))
                 = calculate_reading_time(content)
            /\ get_excerpt(meta_description, RecasedAt(content, i))
                 = get_excerpt(meta_description, content)

\* C4: get_excerpt returns meta_description when it is non-empty; otherwise the
\* text of the first paragraph-kind block, markup stripped, cut to 200
\* characters with an ellipsis iff the stripped text is longer; and the empty
\* string when there is no document or no paragraph block.  Stated for the
\* valid documents, on which the function returns.
C4_ExcerptIsDescriptionOrFirstParagraph ==
    (excerpt.tag # "none" /\ ValidDoc(content)) =>
        excerpt = Ok(ExcerptOf(meta_description, content))

-----------------------------------------------------------------------------
(* Claims on the post store *)

\* The slugs of the posts created before post pk.
UsedBefore(pk) == {posts[i].slug : i \in 1..(pk - 1)}

\* base when it is unused, else base-n for the smallest n >= 1 that is unused.
SmallestFree(base, used) ==
    IF base \notin used THEN base
    ELSE Suffixed(base, Min({n \in 1..(Cardinality(used) + 1) : Suffixed(base, n) \notin used}))

SameTitles == \A i, j \in DOMAIN posts : posts[i].title = posts[j].title

\* C5: created one after another without a slug, a post gets the slugified
\* title when it is unused and otherwise the slugified title followed by -n for
\* the smallest n >= 1 that is unused; so k posts of one title get base,
\* base-1, ..., base-(k-1) in creation order.
C5_SequentialSlugs ==
    /\ \A pk \in DOMAIN posts :
          posts[pk].slug = SmallestFree(slugify(posts[pk].title), UsedBefore(pk))
    /\ SameTitles =>
          \A pk \in DOMAIN posts :
              posts[pk].slug = IF pk = 1 THEN slugify(posts[pk].title)
                               ELSE Suffixed(slugify(posts[pk].title), pk - 1)

C5_Witness ==
    /\ Len(posts) >= 3
    /\ SameTitles
    /\ posts[3].slug = Suffixed(slugify(posts[1].title), 2)

\* C6: in every reachable state, after any sequence or interleaving of
\* requests, no two persisted posts have the same slug.
C6_SlugsUnique ==
    \A i, j \in DOMAIN posts : i # j => posts[i].slug # posts[j].slug

C6_Witness == Len(posts) = 2 /\ resp.msg = "IntegrityError"

\* C7: once a post's published_at is set, no later request changes it.
C7_PublishedAtNeverChanges ==
    [][\A pk \in DOMAIN posts :
          posts[pk].published_at # 0 =>
              posts'[pk].published_at = posts[pk].published_at]_vars

\* A post published again after another post was stamped keeps its stamp.
C7_Witness ==
    /\ resp.op = "publish" /\ resp.code = 200
    /\ posts[resp.pk].published_at + 1 < now

\* C8: the publish action applied to an existing draft post sets its status
\* to published, stamps published_at with the current time if it was unset,
\* and reports success.
C8_PublishDraftSucceeds ==
    [][\A pk \in DOMAIN posts :
          (resp'.op = "publish" /\ resp'.slug = posts[pk].slug
                                /\ posts[pk].status = "draft") =>
              /\ resp'.code = 200
              /\ posts'[pk].status = "published"
              /\ posts'[pk].published_at =
                    IF posts[pk].published_at = 0 THEN now ELSE posts[pk].published_at]_vars

\* C9: the unpublish action applied to an existing draft post is rejected
\* with the state-conflict error and its message, not with success or not
\* found, and leaves the post unchanged.
C9_UnpublishDraftConflict ==
    [][\A pk \in DOMAIN posts :
          (resp'.op = "unpublish" /\ resp'.slug = posts[pk].slug
                                  /\ posts[pk].status = "draft") =>
              /\ resp'.code = HTTP_400_BAD_REQUEST
              /\ resp'.msg = "Blog post is already a draft"
              /\ posts' = posts]_vars

\* C10: the publish action applied to a post that is already published is
\* rejected with a client error and leaves every field of the post unchanged.
C10_RepublishRejected ==
    [][\A pk \in DOMAIN posts :
          (resp'.op = "publish" /\ resp'.slug = posts[pk].slug
                                /\ posts[pk].status = "published") =>
              /\ resp'.code = HTTP_400_BAD_REQUEST
              /\ posts' = posts]_vars

C10_Witness ==
    /\ resp.op = "publish" /\ resp.code = HTTP_400_BAD_REQUEST
    /\ resp.pk \in DOMAIN posts
    /\ posts[resp.pk].status = "published"

\* C11: a retrieve-by-slug call that finds its post answers 200 and increases
\* the persisted views_count of that post by exactly 1; n retrievals one after
\* another add n.
C11_RetrieveAddsOneView ==
    [][\A pk \in DOMAIN posts :
          (resp'.op = "retrieve" /\ resp'.pk = pk) =>
              /\ resp'.code = 200
              /\ posts'[pk].views_count = posts[pk].views_count + 1]_vars

C11_Witness ==
    /\ resp.op = "retrieve" /\ resp.code = 200
    /\ posts[resp.pk].views_count = 2

\* C12: the write of a retrieve-by-slug request changes views_count of its
\* post and nothing else, in this post or any other, also when an update of
\* the same post was written while the retrieval was under way.
C12_ViewIncrementFrame ==
    [][\A w \in Workers :
          (reqs[w].op = "retrieve" /\ reqs'[w] = Idle) =>
              /\ Len(posts') = Len(posts)
              /\ \A i \in DOMAIN posts :
                    /\ posts'[i] = [posts[i] EXCEPT !.views_count = posts'[i].views_count]
                    /\ i # reqs[w].pk => posts'[i] = posts[i]]_vars

\* A retrieval has just ended on a post whose slug was changed under it.
C12_Witness ==
    /\ resp.op = "retrieve" /\ resp.code = 200
    /\ posts[resp.pk].slug # resp.slug
    /\ posts[resp.pk].views_count = 1

\* C13: when n retrieve-by-slug requests for the same post run concurrently,
\* the persisted views_count after all of them ended is the initial value
\* (0 after create) plus n.
C13_NoLostIncrement ==
    (\A w \in Workers : reqs[w] = Idle) => posts[1].views_count = started

\* C14: in every reachable state, the list, featured, by-category and latest
\* endpoints called without include_drafts=true return only posts whose status
\* is published.
C14_ListingsShowNoDraft ==
    (resp.op \in {"list", "featured", "by_category", "latest"}
        /\ resp.msg # "include_drafts=true") =>
            \A i \in resp.pks : posts[i].status = "published"

\* A featured draft exists and the featured listing returns another post.
C14_Witness ==
    /\ resp.op = "featured" /\ resp.msg = "" /\ resp.pks # {}
    /\ \E i \in DOMAIN posts : posts[i].status = "draft" /\ posts[i].is_featured

-----------------------------------------------------------------------------
(* Claims on the lead forms, under SpecLeads *)

\* C15: for each of the six lead-form resources, creation is permitted to
\* unauthenticated callers, list, retrieve, update and delete are permitted
\* only to admin users, and a denied request changes no record.
C15_PublicCreateAdminRest ==
    [][/\ (lead_resp'.action = "create" /\ lead_resp'.caller = "anonymous") =>
             (~lead_resp'.denied /\ lead_resp'.code \in {201, 400})
       /\ lead_resp'.action \in LeadActions \ {"create"} =>
             /\ lead_resp'.denied <=> lead_resp'.caller # "admin"
             /\ lead_resp'.caller = "admin" => lead_resp'.code \in {200, 204, 400, 404}
       /\ lead_resp'.denied => leads' = leads]_vars

\* The five forms that enquiries/tests.py posts to.
TestedForms == Resources \ {"download-brochure"}

\* A payload whose fields all have the shape the form asks for.
WellFormed(data) == data.contact_number # "null" /\ data.checked # "bad"

Submission(data) == Json("object", data.contact_number, data.checked)

\* C17: after a successful create of a lead-form record from a payload P, the
\* persisted raw_payload is the submission P, whether or not P has a
\* raw_payload key.
C17_RawPayloadIsSubmission ==
    (lead_resp.action = "create" /\ lead_resp.code = 201) =>
        LET rows == leads[lead_resp.resource]
        IN rows[Len(rows)].raw_payload = Submission(lead_resp.data)

\* C18: a create request that names a slug some post already has, and an update
\* request that finds its post and names the slug of another post, end with
\* the validation error of the slug field and leave the posts as they were; an
\* update that names the post's own slug is accepted. The create and update
\* requests of SEO tags treat page_id the same way.
C18_DuplicateKeyRejected ==
    [][/\ (posts' # posts \/ resp' # resp) /\ resp'.op = "create"
          /\ resp'.sent # <<>> /\ SlugTaken(posts, resp'.sent, 0)
          => resp'.code = HTTP_400_BAD_REQUEST /\ resp'.msg = "slug exists"
             /\ posts' = posts
       /\ (posts' # posts \/ resp' # resp) /\ resp'.op = "update" /\ resp'.code # 404
          => /\ SlugTaken(posts, resp'.sent, resp'.pk)
                => resp'.code = HTTP_400_BAD_REQUEST /\ resp'.msg = "slug exists"
                   /\ posts' = posts
             /\ posts[resp'.pk].slug = resp'.sent
                => resp'.code = 200 /\ posts'[resp'.pk].slug = resp'.sent
       /\ (seo_tags' # seo_tags \/ seo_resp' # seo_resp) /\ seo_resp'.op = "create"
          /\ PageIdTaken(seo_tags, seo_resp'.sent, 0)
          => seo_resp'.code = HTTP_400_BAD_REQUEST /\ seo_resp'.msg = "page_id exists"
             /\ seo_tags' = seo_tags
       /\ (seo_tags' # seo_tags \/ seo_resp' # seo_resp) /\ seo_resp'.op = "update"
          /\ seo_resp'.code # 404
          => LET pk == get_tag(seo_tags, seo_resp'.page_id) IN
             /\ PageIdTaken(seo_tags, seo_resp'.sent, pk)
                => seo_resp'.code = HTTP_400_BAD_REQUEST
                   /\ seo_resp'.msg = "page_id exists" /\ seo_tags' = seo_tags
             /\ seo_resp'.sent = seo_resp'.page_id
                => seo_resp'.code = 200 /\ seo_tags'[pk].page_id = seo_resp'.sent
      ]_vars

\* Two posts and two tags are stored, and the last request on each was an
\* update refused for naming the key of the other row.
C18_Witness ==
    /\ Len(posts) = 2 /\ resp.op = "update" /\ resp.code = HTTP_400_BAD_REQUEST
    /\ resp.msg = "slug exists" /\ posts[resp.pk].slug # resp.sent
    /\ Len(seo_tags) = 2 /\ seo_resp.op = "update" /\ seo_resp.msg = "page_id exists"
    /\ seo_resp.sent # seo_resp.page_id

\* C19: a save of an SEOTag instance leaves og_title and og_description as
\* they were when not blank and makes them page_title and meta_description
\* when blank; it leaves the three Twitter fields as they were when not blank
\* and makes them the Open-Graph values after the save when blank; no other
\* non-blank field changes, the row stored is the instance, and a save that
\* follows a save changes neither the instance nor the table.
C19_SavePopulatesBlankFields ==
    [][seo_resp'.op = "save" /\ seo_resp' # seo_resp /\ seo_resp'.code = 200
       => LET b == seo_tag.row
              a == seo_tag'.row
          IN /\ a.og_title = (IF b.og_title = "" THEN b.page_title ELSE b.og_title)
             /\ a.og_description =
                    (IF b.og_description = "" THEN b.meta_description
                     ELSE b.og_description)
             /\ a.twitter_title =
                    (IF b.twitter_title = "" THEN a.og_title ELSE b.twitter_title)
             /\ a.twitter_description =
                    (IF b.twitter_description = "" THEN a.og_description
                     ELSE b.twitter_description)
             /\ a.twitter_image_url =
                    (IF b.twitter_image_url = "" THEN a.og_image_url
                     ELSE b.twitter_image_url)
             /\ b.twitter_title = "" /\ b.og_title = "" => a.twitter_title = b.page_title
             /\ \A f \in DOMAIN b : b[f] # "" => a[f] = b[f]
             /\ seo_tags'[seo_tag'.pk] = a
             /\ seo_resp.op = "save" => a = b /\ seo_tags' = seo_tags
      ]_vars

\* An instance whose two title fields were blank was saved twice in a row and
\* both now hold the page title.
C19_Witness ==
    /\ seo_resp.op = "save" /\ seo_resp.n = 2 /\ seo_resp.edits = 0
    /\ seo_tag.row.page_title = "T"
    /\ seo_tag.row.og_title = "T" /\ seo_tag.row.twitter_title = "T"
    /\ seo_tags[seo_tag.pk] = seo_tag.row

\* C20: after every step of the save, delete and load operations of
\* AdvancedSEO, run by several workers at once, the table holds at most one
\* row and a row it holds has primary key 1; a table that holds a row holds
\* one after the step; and when the operation that ended last is a load or a
\* full-SEO read the table holds exactly one row.
C20_AdvancedSeoSingleton ==
    [][/\ Cardinality(advanced') <= 1
       /\ \A r \in advanced' : r.pk = 1
       /\ advanced # {} => advanced' # {}
       /\ adv_resp'.op \in {"load", "full_seo"} => Cardinality(advanced') = 1
      ]_vars

\* Two workers raced to store the first row: the INSERT of a save was refused
\* and one row, that of the other worker, is stored.
C20_Witness ==
    /\ adv_resp = AdvResponse("save", "IntegrityError")
    /\ advanced = {AdvRow(1, "")}

\* A block whose kind is none of paragraph, header, quote and list.
OtherKind(b) ==
    b.tag = "dict" /\ Canonical(b.type) \notin {"paragraph", "header", "quote", "list"}

InsertAt(bs, i, b) == SubSeq(bs, 1, i) \o <<b>> \o SubSeq(bs, i + 1, Len(bs))

\* C22: the reading time of a document whose blocks are all of other kinds than
\* paragraph, header, quote and list is 1, and a block of such a kind put
\* anywhere into a document leaves the outcome of calculate_reading_time as
\* it was.
C22_OtherKindsCountNothing ==
    (reading_time.tag # "none" /\ IsBlockList(content)) =>
        /\ (\A i \in 1..Len(content.blocks.xs) : OtherKind(content.blocks.xs[i]))
              => reading_time = Ok(1)
        /\ \A b \in {x \in Blocks : OtherKind(x)}, i \in 0..Len(content.blocks.xs) :
              calculate_reading_time(Doc(InsertAt(content.blocks.xs, i, b)))
                  = reading_time

\* The reading time of an image and a block of an unknown kind, each carrying
\* 300 words of text and two items of 250 words, was derived and is 1.
C22_Witness ==
    /\ content = Doc(<<Block("image", LongData), Block("hologram", LongData)>>)
    /\ reading_time = Ok(1)

\* C23: a create request without a slug that scanned the table before a post
\* of the same title was stored, and so holds the slug that post took, ends
\* with the IntegrityError of the unique index on slug; it gets no other
\* suffix and the table stays as it was.
C23_RacingCreateFails ==
    [][\A w \in Workers :
          (/\ reqs[w].op = "create" /\ reqs[w].write = "insert"
           /\ reqs[w].sent = <<>> /\ reqs'[w] = Idle
           /\ \E i \in DOMAIN posts : /\ posts[i].title = reqs[w].row.title
                                      /\ posts[i].slug = reqs[w].row.slug)
          => /\ resp'.op = "create" /\ resp'.code = 500
             /\ resp'.msg = "IntegrityError"
             /\ posts' = posts]_vars

\* Both workers sent a create without a slug; one post is stored under the
\* slug of its title, the other request ended with IntegrityError.
C23_Witness ==
    /\ Len(posts) = 1 /\ posts[1].slug = slugify(posts[1].title)
    /\ resp.op = "create" /\ resp.sent = <<>> /\ resp.msg = "IntegrityError"
    /\ started = 2 /\ \A w \in Workers : reqs[w] = Idle

\* C26: no step of any interleaving of retrieve, publish, unpublish and update
\* requests makes the views_count of a stored post smaller.
C26_ViewsNeverDecrease ==
    [][\A pk \in DOMAIN posts : posts'[pk].views_count >= posts[pk].views_count]_vars

\* C27: a publish request that passed the status check and reaches the table
\* when the post is published already is answered as already published, and
\* the published_at stamped by the request that wrote first stays.
C27_OnePublishWins ==
    [][\A w \in Workers :
          (/\ reqs[w].op = "publish" /\ reqs[w].write = "update" /\ reqs'[w] = Idle
           /\ posts[reqs[w].pk].status = "published")
          => /\ resp'.code = HTTP_400_BAD_REQUEST
             /\ resp'.msg = "Blog post is already published"
             /\ posts'[reqs[w].pk].published_at = posts[reqs[w].pk].published_at]_vars

\* C29: every stored post has a slug of at least one character, whatever
\* title it was created from.
C29_SlugNeverEmpty ==
    \A pk \in DOMAIN posts : Len(posts[pk].slug) >= 1

\* C24: in every state reached by any interleaving of create, update, publish,
\* unpublish and retrieve requests and the bulk actions of the admin site, the
\* reading_time of every stored post is calculate_reading_time of the content
\* stored with it.
C24_ReadingTimeMatchesContent ==
    \A pk \in DOMAIN posts :
        Ok(posts[pk].reading_time) = calculate_reading_time(posts[pk].content)

\* A post whose content an update replaced by 300 words while a bulk publish
\* of it was under way: both have written, the reading time is 2.
C24_Witness ==
    /\ \E pk \in DOMAIN posts :
          /\ posts[pk].content = LongDoc /\ posts[pk].reading_time = 2
          /\ posts[pk].status = "published"
    /\ resp.op = "publish_posts" /\ started = 3

\* C25: a save of a stored post that has a slug and a published_at, with no
\* field changed, leaves the table as it was (the model keeps no updated_at).
C25_ResaveChangesNothing ==
    [][(/\ resp'.op = "resave" /\ resp'.code = 200
        /\ (resp' # resp \/ posts' # posts)
        /\ posts[resp'.pk].slug # <<>> /\ posts[resp'.pk].published_at # 0)
       => posts' = posts]_vars

\* A published post with a 300-word document that was viewed was saved again.
C25_Witness ==
    /\ resp.op = "resave" /\ resp.code = 200
    /\ posts[resp.pk].status = "published" /\ posts[resp.pk].published_at # 0
    /\ posts[resp.pk].content = LongDoc /\ posts[resp.pk].views_count = 1

\* C28: in every state reached by create, update, publish, unpublish and
\* retrieve requests and the bulk publish and unpublish actions, every stored
\* post whose status is published has a published_at.
C28_PublishedHasStamp ==
    \A pk \in DOMAIN posts :
        posts[pk].status = "published" => posts[pk].published_at # 0

\* Two posts, both published by one bulk action, each with its stamp.
C28_Witness ==
    /\ resp.op = "publish_posts" /\ resp.pks = {1, 2}
    /\ \A pk \in DOMAIN posts : posts[pk].status = "published"
    /\ posts[1].published_at # posts[2].published_at

\* C30: a GET for the slug of a stored published post (a slug that save
\* generated from the title, of one character or more) is dispatched to the
\* detail view and answers with that post.
C30_SlugReachesDetail ==
    [][(/\ resp' # resp \/ posts' # posts
        /\ resp'.op \in {"retrieve", "latest", "none"}
        /\ resp'.slug # <<>>
        /\ \E pk \in DOMAIN posts :
              posts[pk].slug = resp'.slug /\ posts[pk].status = "published")
       => (/\ resp'.op = "retrieve" /\ resp'.code = 200
           /\ posts[resp'.pk].slug = resp'.slug)]_vars

\* C21: a create or update leaves in the table the document the request
\* carried, block for block in the same order; every other request leaves the
\* content of every post as it was; and retrieve answers with the content the
\* table holds.  So the content read back is the content last written.
C21_ContentRoundTrip ==
    [][(resp' # resp \/ posts' # posts) =>
        /\ (resp'.op \in {"create", "update"} /\ resp'.code \in {200, 201})
              => posts'[resp'.pk].content = resp'.content
        /\ resp'.op \notin {"create", "update"}
              => \A pk \in DOMAIN posts : posts'[pk].content = posts[pk].content
        /\ (resp'.op = "retrieve" /\ resp'.code = 200)
              => /\ resp'.content = posts[resp'.pk].content
                 /\ resp'.content # NoBody]_vars

\* A post whose document has a block of an unknown kind before a paragraph
\* was published and then read back with both blocks in that order.
C21_Witness ==
    /\ resp.op = "retrieve" /\ resp.code = 200
    /\ resp.content = Doc(<<Hologram, Para>>)
    /\ posts[resp.pk].status = "published" /\ posts[resp.pk].views_count = 2

=============================================================================
